---- MODULE Spec2Model ----
(***************************************************************************)
(* A model of the row-level-security compiler of rapidd-build: the regex   *)
(* analyzer (deepSQLAnalyzer.js), the two backends of the enhanced         *)
(* converter (prismaFilterBuilder.js), the recursive converter             *)
(* (autoRLSConverter.js) and the relationship generator                    *)
(* (relationshipsGenerator.js).                                            *)
(*                                                                         *)
(* Policy text is modelled as the sequence of its lexical tokens, as the   *)
(* text reads after normalizeSql has collapsed white space: a word is a    *)
(* maximal run of [\w.] characters and is kept as the sequence of its      *)
(* characters, so that includes(), endsWith(), toLowerCase() and           *)
(* replace() of the source are computed, not assumed; operators and key   *)
(* words are separated from their neighbours by one space.  A regular      *)
(* expression of the source is modelled as the scan for its token pattern. *)
(* Generated JavaScript and Prisma text is modelled as the expression tree *)
(* that the text denotes.                                                  *)
(***************************************************************************)
EXTENDS Integers, Sequences, FiniteSets, TLC

VARIABLES
    ast,            \* the tree parseSqlExpression returned
    functionAnalysis, \* what analyzeFunctions found: the converter's tables
    pc,             \* position of the driver: which call has returned
    models,         \* PrismaFilterBuilder.models (parser output)
    relationships,  \* PrismaFilterBuilder.relationships / relationships.json
    modelName,      \* the model a policy belongs to
    policy,         \* the policy as it was written (operands and connectives)
    sql,            \* the policy text handed to the converter (tokens)
    analysis,       \* result of DeepSQLAnalyzer.analyzeSQLForFilters
    prismaFilter,   \* result of convertToPrismaFilter
    jsExpr,         \* result of convertToJavaScript
    fnCode          \* result of generateFunction

vars == <<ast, functionAnalysis, pc, models, relationships, modelName, policy, sql, analysis,
          prismaFilter, jsExpr, fnCode>>

-----------------------------------------------------------------------------
(* Names, as character sequences *)

\* column names
n_id == <<"i","d">>
n_owner_id == <<"o","w","n","e","r","_","i","d">>
n_target_id == <<"t","a","r","g","e","t","_","i","d">>
n_status == <<"s","t","a","t","u","s">>
n_deleted_at == <<"d","e","l","e","t","e","d","_","a","t">>
n_role == <<"r","o","l","e">>
n_student_id == <<"s","t","u","d","e","n","t","_","i","d">>
n_teacher_id == <<"t","e","a","c","h","e","r","_","i","d">>
n_course_id == <<"c","o","u","r","s","e","_","i","d">>
n_tenant_id == <<"t","e","n","a","n","t","_","i","d">>
n_org_id == <<"o","r","g","_","i","d">>
n_employee_id == <<"e","m","p","l","o","y","e","e","_","i","d">>
n_customer_id == <<"c","u","s","t","o","m","e","r","_","i","d">>
n_name == <<"n","a","m","e">>
n_ghost_id == <<"g","h","o","s","t","_","i","d">>
\* context-provider names
n_get_current_user_id == <<"g","e","t","_","c","u","r","r","e","n","t","_","u","s","e","r","_","i","d">>
n_current_user_id == <<"c","u","r","r","e","n","t","_","u","s","e","r","_","i","d">>
n_auth_dot_uid == <<"a","u","t","h",".","u","i","d">>
n_auth_dot_user_id == <<"a","u","t","h",".","u","s","e","r","_","i","d">>
n_get_current_user_role == <<"g","e","t","_","c","u","r","r","e","n","t","_","u","s","e","r","_","r","o","l","e">>
n_current_user_role == <<"c","u","r","r","e","n","t","_","u","s","e","r","_","r","o","l","e">>
n_current_role == <<"c","u","r","r","e","n","t","_","r","o","l","e">>
n_auth_dot_role == <<"a","u","t","h",".","r","o","l","e">>
n_get_current_tenant_id == <<"g","e","t","_","c","u","r","r","e","n","t","_","t","e","n","a","n","t","_","i","d">>
n_current_tenant_id == <<"c","u","r","r","e","n","t","_","t","e","n","a","n","t","_","i","d">>
n_current_tenant == <<"c","u","r","r","e","n","t","_","t","e","n","a","n","t">>
n_get_current_org_id == <<"g","e","t","_","c","u","r","r","e","n","t","_","o","r","g","_","i","d">>
n_current_org_id == <<"c","u","r","r","e","n","t","_","o","r","g","_","i","d">>
n_current_organization_id == <<"c","u","r","r","e","n","t","_","o","r","g","a","n","i","z","a","t","i","o","n","_","i","d">>
n_get_current_student_id == <<"g","e","t","_","c","u","r","r","e","n","t","_","s","t","u","d","e","n","t","_","i","d">>
n_current_student_id == <<"c","u","r","r","e","n","t","_","s","t","u","d","e","n","t","_","i","d">>
n_get_student_id_for_user == <<"g","e","t","_","s","t","u","d","e","n","t","_","i","d","_","f","o","r","_","u","s","e","r">>
n_get_current_teacher_id == <<"g","e","t","_","c","u","r","r","e","n","t","_","t","e","a","c","h","e","r","_","i","d">>
n_current_teacher_id == <<"c","u","r","r","e","n","t","_","t","e","a","c","h","e","r","_","i","d">>
n_get_teacher_id_for_user == <<"g","e","t","_","t","e","a","c","h","e","r","_","i","d","_","f","o","r","_","u","s","e","r">>
n_get_current_employee_id == <<"g","e","t","_","c","u","r","r","e","n","t","_","e","m","p","l","o","y","e","e","_","i","d">>
n_current_employee_id == <<"c","u","r","r","e","n","t","_","e","m","p","l","o","y","e","e","_","i","d">>
n_get_employee_id_for_user == <<"g","e","t","_","e","m","p","l","o","y","e","e","_","i","d","_","f","o","r","_","u","s","e","r">>
n_get_current_customer_id == <<"g","e","t","_","c","u","r","r","e","n","t","_","c","u","s","t","o","m","e","r","_","i","d">>
n_current_customer_id == <<"c","u","r","r","e","n","t","_","c","u","s","t","o","m","e","r","_","i","d">>
n_get_customer_id_for_user == <<"g","e","t","_","c","u","s","t","o","m","e","r","_","i","d","_","f","o","r","_","u","s","e","r">>
\* key words
n_OR == <<"O","R">>
n_AND == <<"A","N","D">>
n_ANY == <<"A","N","Y">>
n_ARRAY == <<"A","R","R","A","Y">>
n_IS == <<"I","S">>
n_NOT == <<"N","O","T">>
n_NULL == <<"N","U","L","L">>
n_IN == <<"I","N">>
n_EXISTS == <<"E","X","I","S","T","S">>
n_SELECT == <<"S","E","L","E","C","T">>
n_FROM == <<"F","R","O","M">>
n_WHERE == <<"W","H","E","R","E">>
n_CASE == <<"C","A","S","E">>
n_WHEN == <<"W","H","E","N">>
n_THEN == <<"T","H","E","N">>
n_ELSE == <<"E","L","S","E">>
n_END == <<"E","N","D">>
n_true == <<"t","r","u","e">>
n_false == <<"f","a","l","s","e">>
n_get == <<"g","e","t">>
n_current == <<"c","u","r","r","e","n","t">>
\* literals
n_admin == <<"a","d","m","i","n">>
n_mod == <<"m","o","d">>
n_guest == <<"g","u","e","s","t">>
n_active == <<"a","c","t","i","v","e">>
n_num1 == <<"1">>
n_num42 == <<"4","2">>
n_text == <<"t","e","x","t">>
\* models, relations, variables
n_Post == <<"P","o","s","t">>
n_Course == <<"C","o","u","r","s","e">>
n_Teacher == <<"T","e","a","c","h","e","r">>
n_Student == <<"S","t","u","d","e","n","t">>
n_User == <<"U","s","e","r">>
n_Enrollment == <<"E","n","r","o","l","l","m","e","n","t">>
n_CourseStudent == <<"C","o","u","r","s","e","S","t","u","d","e","n","t">>
n_Nowhere == <<"N","o","w","h","e","r","e">>
n_enrollments == <<"e","n","r","o","l","l","m","e","n","t","s">>
n_students == <<"s","t","u","d","e","n","t","s">>
n_teacher == <<"t","e","a","c","h","e","r">>
n_student == <<"s","t","u","d","e","n","t">>
n_user == <<"u","s","e","r">>
n_data == <<"d","a","t","a">>
n__id == <<"_","i","d">>
n_u1 == <<"u","1">>
n_u2 == <<"u","2">>

-----------------------------------------------------------------------------
(* String.prototype operations of the source, on character sequences *)

Upper == <<"A","B","C","D","E","F","G","H","I","J","K","L","M",
           "N","O","P","Q","R","S","T","U","V","W","X","Y","Z">>
Lower == <<"a","b","c","d","e","f","g","h","i","j","k","l","m",
           "n","o","p","q","r","s","t","u","v","w","x","y","z">>
Digits == {"0","1","2","3","4","5","6","7","8","9"}

LowerChar(c) ==
    IF \E i \in 1..26 : Upper[i] = c
    THEN Lower[CHOOSE i \in 1..26 : Upper[i] = c]
    ELSE c

toLowerCase(s) == [i \in 1..Len(s) |-> LowerChar(s[i])]

MatchAt(s, sub, i) ==
    /\ i >= 1
    /\ i + Len(sub) - 1 <= Len(s)
    /\ \A k \in 1..Len(sub) : s[i + k - 1] = sub[k]

includes(s, sub) == \E i \in 1..Len(s) + 1 : MatchAt(s, sub, i)
startsWith(s, sub) == MatchAt(s, sub, 1)
endsWith(s, sub) == MatchAt(s, sub, Len(s) - Len(sub) + 1)
indexOfStr(s, sub) ==
    IF includes(s, sub)
    THEN CHOOSE i \in 1..Len(s) + 1 :
            MatchAt(s, sub, i) /\ \A j \in 1..i - 1 : ~MatchAt(s, sub, j)
    ELSE 0

\* name.replace(/\./g, '_')
ReplaceDots(s) == [i \in 1..Len(s) |-> IF s[i] = "." THEN "_" ELSE s[i]]

\* the part of a [\w.] run that a trailing (\w+) takes: after the last dot
LastSegment(s) ==
    LET dots == {i \in 1..Len(s) : s[i] = "."}
    IN IF dots = {} THEN s
       ELSE SubSeq(s, (CHOOSE i \in dots : \A j \in dots : j <= i) + 1, Len(s))

\* the part of a [\w.] run that a leading (\w+) takes: before the first dot
FirstSegment(s) ==
    LET dots == {i \in 1..Len(s) : s[i] = "."}
    IN IF dots = {} THEN s
       ELSE SubSeq(s, 1, (CHOOSE i \in dots : \A j \in dots : i <= j) - 1)

IsDigits(s) == Len(s) > 0 /\ \A i \in 1..Len(s) : s[i] \in Digits

\* isNaN(v) && v !== 'true' && v !== 'false'
NeedsQuotes(v) == ~IsDigits(v) /\ v # n_true /\ v # n_false

-----------------------------------------------------------------------------
(* Sequences *)

RECURSIVE SortedSeq(_)
SortedSeq(S) ==
    IF S = {} THEN <<>>
    ELSE LET m == CHOOSE x \in S : \A y \in S : x <= y
         IN <<m>> \o SortedSeq(S \ {m})

RECURSIVE Flatten(_)
Flatten(ss) == IF ss = <<>> THEN <<>> ELSE Head(ss) \o Flatten(Tail(ss))

\* [...new Set(xs)]: first occurrences, in order
Dedup(xs) ==
    LET keep == {i \in 1..Len(xs) : \A j \in 1..i - 1 : xs[j] # xs[i]}
        idx == SortedSeq(keep)
    IN [k \in 1..Len(idx) |-> xs[idx[k]]]

SeqHas(xs, x) == \E i \in 1..Len(xs) : xs[i] = x

-----------------------------------------------------------------------------
(* Tokens *)

W(v) == [t |-> "w", v |-> v]      \* a run of word characters and dots
Q(v) == [t |-> "q", v |-> v]      \* a quoted string literal 'v'
P(c) == [t |-> "p", v |-> <<c>>]  \* one punctuation or operator
CastTok(v) == [t |-> "c", v |-> v]       \* ::type
CastArrTok(v) == [t |-> "ca", v |-> v]   \* ::type[]

LP == P("(")
RP == P(")")
EQ == P("=")

IsWord(tok) == tok.t = "w"
\* a key word matched by a case-insensitive pattern
IsKw(tok, kw) == tok.t = "w" /\ toLowerCase(tok.v) = toLowerCase(kw)

\* the text between two tokens holds ' X ' for the token X
HasSpaced(s, tok) == \E i \in 2..Len(s) - 1 : s[i] = tok

\* depth of parentheses after each token
RECURSIVE DepthAfter(_, _)
DepthAfter(s, i) ==
    IF i = 0 THEN 0
    ELSE DepthAfter(s, i - 1)
         + (IF s[i] = LP THEN 1 ELSE IF s[i] = RP THEN -1 ELSE 0)

-----------------------------------------------------------------------------
(* Generated JavaScript: operands and boolean expressions *)

NoOperand == [o |-> "none", base |-> <<>>, steps |-> <<>>, v |-> <<>>]
\* base.step.step, each step either `.name` or `?.name`
PathOp(base, steps) == [o |-> "path", base |-> base, steps |-> steps, v |-> <<>>]
Step(name, opt) == [name |-> name, opt |-> opt]
StrOp(v) == [o |-> "str", base |-> <<>>, steps |-> <<>>, v |-> v]   \* 'v'
RawOp(v) == [o |-> "raw", base |-> <<>>, steps |-> <<>>, v |-> v]   \* v
\* base?.name()
CallOp(base, name) ==
    [o |-> "call", base |-> base, steps |-> <<[name |-> name, opt |-> TRUE]>>, v |-> <<>>]
\* isNaN(v) && v !== 'true' && v !== 'false' ? `'${v}'` : v
LitOp(v) == IF NeedsQuotes(v) THEN StrOp(v) ELSE RawOp(v)

JsNode(k, l, r, list, args, note) ==
    [k |-> k, l |-> l, r |-> r, list |-> list, args |-> args, note |-> note]
JsTrue == JsNode("true", NoOperand, NoOperand, <<>>, <<>>, <<>>)
JsFalse == JsNode("false", NoOperand, NoOperand, <<>>, <<>>, <<>>)
\* true /* note */
JsTrueNote(note) == JsNode("true", NoOperand, NoOperand, <<>>, <<>>, note)
JsEq(l, r) == JsNode("eq", l, r, <<>>, <<>>, <<>>)              \* l === r
JsIncludes(list, r) == JsNode("includes", NoOperand, r, list, <<>>, <<>>)
JsOr(args) == JsNode("or", NoOperand, NoOperand, <<>>, args, <<>>)
JsAnd(args) == JsNode("and", NoOperand, NoOperand, <<>>, args, <<>>)
\* l?.find(item => item.field === r), with the field's name in note
JsFind(l, field, r) == JsNode("find", l, r, <<>>, <<>>, field)
NoJs == JsNode("none", NoOperand, NoOperand, <<>>, <<>>, <<>>)

\* user?.role
UserRolePath(userVar) == PathOp(userVar, <<Step(n_role, TRUE)>>)

-----------------------------------------------------------------------------
(* DeepSQLAnalyzer *)

functionMappings ==
    (n_get_current_user_id :> n_id) @@ (n_current_user_id :> n_id) @@
    (n_auth_dot_uid :> n_id) @@ (n_auth_dot_user_id :> n_id) @@
    (n_get_current_user_role :> n_role) @@ (n_current_user_role :> n_role) @@
    (n_current_role :> n_role) @@ (n_auth_dot_role :> n_role) @@
    (n_get_current_tenant_id :> n_tenant_id) @@
    (n_current_tenant_id :> n_tenant_id) @@
    (n_current_tenant :> n_tenant_id) @@
    (n_get_current_org_id :> n_org_id) @@ (n_current_org_id :> n_org_id) @@
    (n_current_organization_id :> n_org_id) @@
    (n_get_current_student_id :> n_student_id) @@
    (n_current_student_id :> n_student_id) @@
    (n_get_student_id_for_user :> n_student_id) @@
    (n_get_current_teacher_id :> n_teacher_id) @@
    (n_current_teacher_id :> n_teacher_id) @@
    (n_get_teacher_id_for_user :> n_teacher_id) @@
    (n_get_current_employee_id :> n_employee_id) @@
    (n_current_employee_id :> n_employee_id) @@
    (n_get_employee_id_for_user :> n_employee_id) @@
    (n_get_current_customer_id :> n_customer_id) @@
    (n_current_customer_id :> n_customer_id) @@
    (n_get_customer_id_for_user :> n_customer_id)

\* map[key], with undefined as the empty name
Lookup(map, key) == IF key \in DOMAIN map THEN map[key] ELSE <<>>

\* this.functionMappings[funcName] || this.functionMappings[funcName.toLowerCase()]
LookupFunction(funcName) ==
    IF Lookup(functionMappings, funcName) # <<>>
    THEN Lookup(functionMappings, funcName)
    ELSE Lookup(functionMappings, toLowerCase(funcName))

MkFilter(type, field, userField, value, values) ==
    [type |-> type, field |-> field, userField |-> userField,
     value |-> value, values |-> values]

MkCondition(type, roles, role, table, javascript) ==
    [type |-> type, roles |-> roles, role |-> role, table |-> table,
     javascript |-> javascript]

\* ::type is dropped, ::type[] becomes ']'
StripCasts(s) ==
    Flatten([i \in 1..Len(s) |->
        IF s[i].t = "c" THEN <<>>
        ELSE IF s[i].t = "ca" THEN <<P("]")>>
        ELSE <<s[i]>>])

\* the while loop of normalizeSql: drop a balanced outer pair of parentheses
RECURSIVE StripOuterParens(_)
StripOuterParens(s) ==
    IF Len(s) >= 2 /\ s[1] = LP /\ s[Len(s)] = RP
    THEN LET inner == SubSeq(s, 2, Len(s) - 1)
             isBalanced == \A i \in 1..Len(inner) : DepthAfter(inner, i) >= 0
         IN IF /\ isBalanced
               /\ DepthAfter(inner, Len(inner)) = 0
               /\ \/ HasSpaced(inner, EQ)
                  \/ HasSpaced(inner, W(n_AND))
                  \/ HasSpaced(inner, W(n_OR))
            THEN StripOuterParens(inner)
            ELSE s
    ELSE s

normalizeSql(s) == StripOuterParens(StripCasts(s))

\* a word that ends in EXISTS (any case) and is followed by '('
ExistsAt(s, i) ==
    /\ i + 1 <= Len(s)
    /\ IsWord(s[i])
    /\ endsWith(toLowerCase(s[i].v), toLowerCase(n_EXISTS))
    /\ s[i + 1] = LP

\* index of the parenthesis that closes the one at `open`, or the last token
CloseIndex(s, open) ==
    LET d0 == DepthAfter(s, open - 1)
        closing == {j \in open + 1..Len(s) : DepthAfter(s, j) = d0}
    IN IF closing = {} THEN Len(s)
       ELSE CHOOSE j \in closing : \A k \in closing : j <= k

RECURSIVE removeExistsSubqueries(_)
removeExistsSubqueries(s) ==
    LET hits == {i \in 1..Len(s) : ExistsAt(s, i)}
    IN IF hits = {} THEN s
       ELSE LET existsIndex == CHOOSE i \in hits : \A j \in hits : i <= j
                endParen == CloseIndex(s, existsIndex + 1)
                kept == SubSeq(s[existsIndex].v, 1,
                               Len(s[existsIndex].v) - Len(n_EXISTS))
            IN removeExistsSubqueries(
                   SubSeq(s, 1, existsIndex - 1)
                   \o <<W(kept \o n_true)>>
                   \o SubSeq(s, endParen + 1, Len(s)))

\* field.toLowerCase().includes('current') || field.toLowerCase().includes('get')
LooksLikeFunction(field) ==
    \/ includes(toLowerCase(field), n_current)
    \/ includes(toLowerCase(field), n_get)

\* the positions of a token pattern, left to right, each mapped to a record
ScanSeq(s, Hit(_), Rec(_)) ==
    LET idx == SortedSeq({i \in 1..Len(s) : Hit(i)})
    IN [k \in 1..Len(idx) |-> Rec(idx[k])]

KeepSeq(xs, Keep(_)) == SelectSeq(xs, Keep)

Tok(s, i) == IF i >= 1 /\ i <= Len(s) THEN s[i] ELSE P("")

\* (\d+)(?!\s*\)): before ')' the last digit is given back
NumberValue(s, i) ==
    IF Tok(s, i + 1) = RP THEN SubSeq(s[i].v, 1, Len(s[i].v) - 1) ELSE s[i].v

extractDirectComparisons(s) ==
    LET strHit(i) == IsWord(Tok(s, i)) /\ Tok(s, i + 1) = EQ
                     /\ Tok(s, i + 2).t = "q" /\ Len(Tok(s, i + 2).v) > 0
        strRec(i) == MkFilter("equal", LastSegment(s[i].v), <<>>, s[i + 2].v, <<>>)
        numHit(i) == IsWord(Tok(s, i)) /\ Tok(s, i + 1) = EQ
                     /\ IsWord(Tok(s, i + 2)) /\ IsDigits(Tok(s, i + 2).v)
                     /\ Len(NumberValue(s, i + 2)) > 0
        numRec(i) == MkFilter("equal", LastSegment(s[i].v), <<>>,
                              NumberValue(s, i + 2), <<>>)
        boolHit(i) == IsWord(Tok(s, i)) /\ Tok(s, i + 1) = EQ
                      /\ IsWord(Tok(s, i + 2))
                      /\ \/ startsWith(toLowerCase(Tok(s, i + 2).v), n_true)
                         \/ startsWith(toLowerCase(Tok(s, i + 2).v), n_false)
        boolRec(i) == MkFilter("equal", LastSegment(s[i].v), <<>>,
                               IF startsWith(toLowerCase(s[i + 2].v), n_true)
                               THEN n_true ELSE n_false, <<>>)
        nullHit(i) == IsWord(Tok(s, i)) /\ IsKw(Tok(s, i + 1), n_IS)
                      /\ IsKw(Tok(s, i + 2), n_NULL)
        nullRec(i) == MkFilter("is_null", LastSegment(s[i].v), <<>>, <<>>, <<>>)
        notNullHit(i) == IsWord(Tok(s, i)) /\ IsKw(Tok(s, i + 1), n_IS)
                         /\ IsKw(Tok(s, i + 2), n_NOT)
                         /\ IsKw(Tok(s, i + 3), n_NULL)
        notNullRec(i) == MkFilter("not_null", LastSegment(s[i].v), <<>>, <<>>, <<>>)
        notFunction(f) == ~LooksLikeFunction(f.field)
    IN KeepSeq(ScanSeq(s, strHit, strRec), notFunction)
       \o KeepSeq(ScanSeq(s, numHit, numRec), notFunction)
       \o ScanSeq(s, boolHit, boolRec)
       \o ScanSeq(s, nullHit, nullRec)
       \o ScanSeq(s, notNullHit, notNullRec)

\* the user field of a provider: the normalised name first, then the original
ProviderField(original) ==
    IF LookupFunction(ReplaceDots(original)) # <<>>
    THEN LookupFunction(ReplaceDots(original))
    ELSE LookupFunction(original)

\* sql.includes(match[0] + ' = ANY'): the matched text, then = ANY
FollowedByAny(s, i, len) ==
    \E j \in 1..Len(s) :
        /\ j + len + 1 <= Len(s)
        /\ SubSeq(s, j, j + len - 1) = SubSeq(s, i, i + len - 1)
        /\ s[j + len] = EQ
        /\ s[j + len + 1] = W(n_ANY)

\* the filters pushed by extractFunctionComparisons
extractFunctionFilters(s) ==
    LET \* field = function()
        hit0(i) == IsWord(Tok(s, i)) /\ Tok(s, i + 1) = EQ
                   /\ IsWord(Tok(s, i + 2))
                   /\ Tok(s, i + 3) = LP /\ Tok(s, i + 4) = RP
        rec0(i) == [field |-> LastSegment(s[i].v),
                    userField |-> ProviderField(s[i + 2].v), at |-> i]
        \* function() = field
        hit1(i) == IsWord(Tok(s, i)) /\ Tok(s, i + 1) = LP
                   /\ Tok(s, i + 2) = RP /\ Tok(s, i + 3) = EQ
                   /\ IsWord(Tok(s, i + 4))
        rec1(i) == [field |-> FirstSegment(s[i + 4].v),
                    userField |-> ProviderField(s[i].v), at |-> i]
        keep(m) == /\ m.userField # <<>>
                   /\ ~LooksLikeFunction(m.field)
                   /\ ~FollowedByAny(s, m.at, 5)
        found == KeepSeq(ScanSeq(s, hit0, rec0), keep)
                 \o KeepSeq(ScanSeq(s, hit1, rec1), keep)
    IN [k \in 1..Len(found) |->
           MkFilter("user_", found[k].field, found[k].userField, <<>>, <<>>)]

\* the conditions pushed by extractFunctionComparisons: function() = 'value'
extractFunctionConditions(s) ==
    LET hit(i) == IsWord(Tok(s, i)) /\ Tok(s, i + 1) = LP
                  /\ Tok(s, i + 2) = RP /\ Tok(s, i + 3) = EQ
                  /\ Tok(s, i + 4).t = "q" /\ Len(Tok(s, i + 4).v) > 0
        rec(i) == [userField |-> LookupFunction(ReplaceDots(s[i].v)),
                   value |-> s[i + 4].v]
        isRole(m) == m.userField = n_role
        found == KeepSeq(ScanSeq(s, hit, rec), isRole)
    IN [k \in 1..Len(found) |->
           MkCondition("role_equal", <<>>, found[k].value, <<>>,
                       JsEq(UserRolePath(n_user), StrOp(found[k].value)))]

\* the values of a comma-separated list, quotes removed
ListValues(toks) ==
    LET vals == SelectSeq(toks, LAMBDA tk : tk # P(","))
    IN [k \in 1..Len(vals) |-> vals[k].v]

\* index of the first token equal to tok after position i, or 0
FirstAfter(s, i, tok) ==
    LET hits == {j \in i + 1..Len(s) : s[j] = tok}
    IN IF hits = {} THEN 0 ELSE CHOOSE j \in hits : \A k \in hits : j <= k

\* field IN (values)
InClauseAt(s, i) ==
    /\ IsWord(Tok(s, i)) /\ IsKw(Tok(s, i + 1), n_IN) /\ Tok(s, i + 2) = LP
    /\ FirstAfter(s, i + 2, RP) > i + 3

InClauseContent(s, i) == SubSeq(s, i + 3, FirstAfter(s, i + 2, RP) - 1)

IsSubquery(toks) ==
    \E k \in 1..Len(toks) : includes(toLowerCase(toks[k].v), toLowerCase(n_SELECT))

extractInFilters(s) ==
    LET hit(i) == InClauseAt(s, i) /\ ~LooksLikeFunction(LastSegment(s[i].v))
                  /\ ~IsSubquery(InClauseContent(s, i))
        rec(i) == MkFilter("in", LastSegment(s[i].v), <<>>, <<>>,
                           ListValues(InClauseContent(s, i)))
    IN ScanSeq(s, hit, rec)

extractInConditions(s) ==
    LET hit(i) == InClauseAt(s, i) /\ ~LooksLikeFunction(LastSegment(s[i].v))
                  /\ IsSubquery(InClauseContent(s, i))
        rec(i) == MkCondition("in_subquery", <<>>, <<>>, LastSegment(s[i].v), NoJs)
    IN ScanSeq(s, hit, rec)

\* EXISTS ( ... ): the pattern's first alternative ends at the first ')'
ExistsContent(s, i) == SubSeq(s, i + 2, FirstAfter(s, i + 1, RP) - 1)

\* subquery.match(/FROM\s+(\w+)/i)
FromTable(toks) ==
    LET hits == {k \in 1..Len(toks) - 1 :
                    /\ IsWord(toks[k])
                    /\ endsWith(toLowerCase(toks[k].v), toLowerCase(n_FROM))
                    /\ IsWord(toks[k + 1])}
    IN IF hits = {} THEN <<>>
       ELSE FirstSegment(toks[(CHOOSE k \in hits : \A j \in hits : k <= j) + 1].v)

extractExistsSubqueries(s) ==
    LET hit(i) == /\ ExistsAt(s, i)
                  /\ FirstAfter(s, i + 1, RP) > i + 2
                  /\ FromTable(ExistsContent(s, i)) # <<>>
        rec(i) == MkCondition("exists", <<>>, <<>>,
                              FromTable(ExistsContent(s, i)), NoJs)
    IN ScanSeq(s, hit, rec)

\* [(] function() [)] = ANY ( [ARRAY] [ roles ]
RoleCheckEq(s, i) == IF Tok(s, i + 3) = RP THEN i + 4 ELSE i + 3

RECURSIVE SkipParens(_, _)
SkipParens(s, j) == IF Tok(s, j) = LP THEN SkipParens(s, j + 1) ELSE j

RoleCheckBracket(s, i) ==
    LET j == SkipParens(s, RoleCheckEq(s, i) + 2)
    IN IF IsKw(Tok(s, j), n_ARRAY) THEN j + 1 ELSE j

RoleCheckAt(s, i) ==
    /\ IsWord(Tok(s, i)) /\ Tok(s, i + 1) = LP /\ Tok(s, i + 2) = RP
    /\ Tok(s, RoleCheckEq(s, i)) = EQ
    /\ IsKw(Tok(s, RoleCheckEq(s, i) + 1), n_ANY)
    /\ Tok(s, RoleCheckEq(s, i) + 2) = LP
    /\ Tok(s, RoleCheckBracket(s, i)) = P("[")
    /\ FirstAfter(s, RoleCheckBracket(s, i), P("]")) > RoleCheckBracket(s, i) + 1

extractRoleChecks(s) ==
    LET hit(i) == /\ RoleCheckAt(s, i)
                  /\ LookupFunction(ReplaceDots(s[i].v)) = n_role
        roles(i) == ListValues(SubSeq(s, RoleCheckBracket(s, i) + 1,
                        FirstAfter(s, RoleCheckBracket(s, i), P("]")) - 1))
        rec(i) == MkCondition("role_any", roles(i), <<>>, <<>>,
                              JsIncludes(roles(i), UserRolePath(n_user)))
    IN ScanSeq(s, hit, rec)

n_current_setting == <<"c","u","r","r","e","n","t","_","s","e","t","t","i","n","g">>
k_app_current_user_id == <<"a","p","p",".","c","u","r","r","e","n","t","_","u","s","e","r","_","i","d">>
k_jwt_claims_sub == <<"j","w","t",".","c","l","a","i","m","s",".","s","u","b">>
k_request_jwt_claims_sub == <<"r","e","q","u","e","s","t",".","j","w","t",".","c","l","a","i","m","s",".","s","u","b">>
k_request_jwt_claim_sub == <<"r","e","q","u","e","s","t",".","j","w","t",".","c","l","a","i","m",".","s","u","b">>
k_app_current_role == <<"a","p","p",".","c","u","r","r","e","n","t","_","r","o","l","e">>
k_jwt_claims_role == <<"j","w","t",".","c","l","a","i","m","s",".","r","o","l","e">>
k_request_jwt_claim_role == <<"r","e","q","u","e","s","t",".","j","w","t",".","c","l","a","i","m",".","r","o","l","e">>
k_app_current_tenant == <<"a","p","p",".","c","u","r","r","e","n","t","_","t","e","n","a","n","t">>
k_app_tenant_id == <<"a","p","p",".","t","e","n","a","n","t","_","i","d">>
k_jwt_claims_tenant_id == <<"j","w","t",".","c","l","a","i","m","s",".","t","e","n","a","n","t","_","i","d">>
k_app_org_id == <<"a","p","p",".","o","r","g","_","i","d">>
k_app_organization_id == <<"a","p","p",".","o","r","g","a","n","i","z","a","t","i","o","n","_","i","d">>

sessionMappings ==
    (k_app_current_user_id :> n_id) @@ (k_jwt_claims_sub :> n_id) @@
    (k_request_jwt_claims_sub :> n_id) @@ (k_request_jwt_claim_sub :> n_id) @@
    (k_app_current_role :> n_role) @@ (k_jwt_claims_role :> n_role) @@
    (k_request_jwt_claim_role :> n_role) @@
    (k_app_current_tenant :> n_tenant_id) @@ (k_app_tenant_id :> n_tenant_id) @@
    (k_jwt_claims_tenant_id :> n_tenant_id) @@
    (k_app_org_id :> n_org_id) @@ (k_app_organization_id :> n_org_id)

\* current_setting ( 'key' ... )
SettingAt(s, k) ==
    /\ IsKw(Tok(s, k), n_current_setting) /\ Tok(s, k + 1) = LP
    /\ Tok(s, k + 2).t = "q" /\ Len(Tok(s, k + 2).v) > 0
    /\ FirstAfter(s, k + 2, RP) > 0

extractSessionVariableComparisons(s) ==
    LET \* field = [(] current_setting('key' ...) [)]
        start0(i) == IF Tok(s, i + 2) = LP THEN i + 3 ELSE i + 2
        hit0(i) == IsWord(Tok(s, i)) /\ Tok(s, i + 1) = EQ
                   /\ SettingAt(s, start0(i))
        rec0(i) == [field |-> LastSegment(s[i].v),
                    userField |-> Lookup(sessionMappings, s[start0(i) + 2].v)]
        \* current_setting('key' ...) = field
        close1(i) == FirstAfter(s, i + 2, RP)
        hit1(i) == SettingAt(s, i) /\ Tok(s, close1(i) + 1) = EQ
                   /\ IsWord(Tok(s, close1(i) + 2))
        rec1(i) == [field |-> FirstSegment(s[close1(i) + 2].v),
                    userField |-> Lookup(sessionMappings, s[i + 2].v)]
        keep(m) == m.userField # <<>>
        found == KeepSeq(ScanSeq(s, hit0, rec0), keep)
                 \o KeepSeq(ScanSeq(s, hit1, rec1), keep)
    IN [k \in 1..Len(found) |->
           MkFilter("session_", found[k].field, found[k].userField, <<>>, <<>>)]

\* a token with a character of a (case-insensitive) character class
HasCharOf(tok, class) ==
    \E k \in 1..Len(tok.v) : LowerChar(tok.v[k]) \in class

ClassTHEN == {"t", "h", "e", "n"}                          \* [^THEN]
ClassWHENELSEEND == {"w", "h", "e", "n", "|", "l", "s", "d"}  \* [^WHEN|ELSE|END]
ClassEND == {"e", "n", "d"}                                \* [^END]

\* index of the first token from j on that has a character of the class, or 0
FirstWithCharOf(s, j, class) ==
    LET hits == {k \in j..Len(s) : HasCharOf(s[k], class)}
    IN IF hits = {} THEN 0 ELSE CHOOSE k \in hits : \A m \in hits : k <= m

\* WHEN c THEN r ( WHEN c THEN r )* [ ELSE e ] END from the WHEN at j:
\* every c is free of [THEN], every r of [WHEN|ELSE|END], e of [END]
RECURSIVE CaseBranchesMatch(_, _)
CaseBranchesMatch(s, j) ==
    LET th == FirstWithCharOf(s, j + 1, ClassTHEN)
        nx == FirstWithCharOf(s, th + 1, ClassWHENELSEEND)
        en == FirstWithCharOf(s, nx + 1, ClassEND)
    IN /\ IsKw(Tok(s, j), n_WHEN)
       /\ th > j + 1 /\ IsKw(Tok(s, th), n_THEN)
       /\ nx > th + 1
       /\ \/ IsKw(Tok(s, nx), n_END)
          \/ IsKw(Tok(s, nx), n_ELSE) /\ en > nx + 1 /\ IsKw(Tok(s, en), n_END)
          \/ IsKw(Tok(s, nx), n_WHEN) /\ CaseBranchesMatch(s, nx)

extractCaseWhenConditions(s) ==
    LET hit(i) == IsKw(Tok(s, i), n_CASE) /\ CaseBranchesMatch(s, i + 1)
        rec(i) == MkCondition("case_when", <<>>, <<>>, <<>>, NoJs)
    IN ScanSeq(s, hit, rec)

\* x.y IN ( SELECT c FROM t_member[s] WHERE; the first pattern needs `WHERE c=`
\* with no space before '=', which spaced operators never give
n__member == <<"_","m","e","m","b","e","r">>
n__members == <<"_","m","e","m","b","e","r","s">>

extractComplexJoins(s) ==
    LET hit(i) == /\ IsWord(Tok(s, i)) /\ LastSegment(s[i].v) # s[i].v
                  /\ IsKw(Tok(s, i + 1), n_IN) /\ Tok(s, i + 2) = LP
                  /\ IsKw(Tok(s, i + 3), n_SELECT) /\ IsWord(Tok(s, i + 4))
                  /\ IsKw(Tok(s, i + 5), n_FROM) /\ IsWord(Tok(s, i + 6))
                  /\ \/ endsWith(toLowerCase(Tok(s, i + 6).v), n__member)
                     \/ endsWith(toLowerCase(Tok(s, i + 6).v), n__members)
                  /\ IsKw(Tok(s, i + 7), n_WHERE)
        rec(i) == MkCondition("relation", <<>>, <<>>, LastSegment(s[i].v), NoJs)
    IN ScanSeq(s, hit, rec)

\* the tree of sqlToJsConverter: COMPARISON holds <<left, right>>, OR and AND
\* their operands, NOT its operand, ARRAY its items, FUNCTION its arguments
Ast(type, operator, value, table, kids) ==
    [type |-> type, operator |-> operator, value |-> value, table |-> table, kids |-> kids]
NoAst == Ast("null", <<>>, <<>>, <<>>, <<>>)
Leaf(type, value) == Ast(type, <<>>, value, <<>>, <<>>)
Comparison(operator, left, right) == Ast("COMPARISON", operator, <<>>, <<>>, <<left, right>>)

\* analyzeFunctions that found nothing: createEnhancedConverter({}, {}, ...)
NoAnalysis == [functionMappings |-> <<>>, sessionVariables |-> <<>>]

EmptyAnalysis == [filters |-> <<>>, conditions |-> <<>>, sql |-> <<>>]

\* analyzeSQLForFilters, and the caller's `analysis.sql = sql`
analyzeSQLForFilters(text) ==
    IF text = <<>> THEN EmptyAnalysis
    ELSE LET normalized == normalizeSql(text)
             sqlWithoutExists == removeExistsSubqueries(normalized)
         IN [filters |->
                 extractDirectComparisons(sqlWithoutExists)
                 \o extractFunctionFilters(sqlWithoutExists)
                 \o extractSessionVariableComparisons(sqlWithoutExists)
                 \o extractInFilters(sqlWithoutExists),
             conditions |->
                 extractFunctionConditions(sqlWithoutExists)
                 \o extractInConditions(sqlWithoutExists)
                 \o extractExistsSubqueries(normalized)
                 \o extractCaseWhenConditions(normalized)
                 \o extractRoleChecks(normalized)
                 \o extractComplexJoins(normalized),
             sql |-> text]

-----------------------------------------------------------------------------
(* Schema objects: the parser's models and relationships.json *)

\* a field of a model (prismaParser output)
Field(name, isRelation, isId) ==
    [name |-> name, isRelation |-> isRelation, isId |-> isId,
     kind |-> IF isRelation THEN "object" ELSE "scalar",
     relationName |-> <<>>, relationFromFields |-> <<>>]

\* a relation field that holds the foreign key (@relation(fields: [...]))
RelField(name, relationName, fromFields) ==
    [name |-> name, isRelation |-> TRUE, isId |-> FALSE, kind |-> "object",
     relationName |-> relationName, relationFromFields |-> fromFields]

NoField == [name |-> <<>>, isRelation |-> FALSE, isId |-> FALSE,
            kind |-> "none", relationName |-> <<>>, relationFromFields |-> <<>>]

\* an entry of modelInfo.relations
Relation(name, type, isArray, relationName, fromFields) ==
    [name |-> name, type |-> type, isArray |-> isArray,
     relationName |-> relationName, relationFromFields |-> fromFields]

Model(name, fields, relations, compositeKey) ==
    [name |-> name, fields |-> fields, relations |-> relations,
     compositeKey |-> compositeKey]

NoModel == Model(<<>>, <<>>, <<>>, <<>>)

\* models[name], undefined as NoModel
ModelInfo(ms, name) ==
    IF \E i \in 1..Len(ms) : ms[i].name = name
    THEN ms[CHOOSE i \in 1..Len(ms) : ms[i].name = name]
    ELSE NoModel

\* modelInfo.fields[name], undefined as NoField
FieldInfo(m, name) ==
    IF \E i \in 1..Len(m.fields) : m.fields[i].name = name
    THEN m.fields[CHOOSE i \in 1..Len(m.fields) : m.fields[i].name = name]
    ELSE NoField

\* an entry of relationships[model]: fields is empty when the key is absent
RelInfo(name, object, field, fields) ==
    [name |-> name, object |-> object, field |-> field, fields |-> fields]

\* relationships[modelName] || {}, in insertion order
ModelRelations(rels, name) ==
    IF \E i \in 1..Len(rels) : rels[i].model = name
    THEN rels[CHOOSE i \in 1..Len(rels) : rels[i].model = name].relations
    ELSE <<>>

-----------------------------------------------------------------------------
(* PrismaFilterBuilder *)

n_users == <<"u","s","e","r","s">>

\* the constructor's loop: the first model named user or users, any case
UserModel(ms) ==
    LET hits == {i \in 1..Len(ms) :
                    toLowerCase(ms[i].name) \in {n_user, n_users}}
    IN IF hits = {} THEN NoModel
       ELSE ms[CHOOSE i \in hits : \A j \in hits : i <= j]

FNode(k, field, op, rel, vals, args, check) ==
    [k |-> k, field |-> field, op |-> op, rel |-> rel, vals |-> vals,
     args |-> args, check |-> check]
FPass == FNode("pass", <<>>, NoOperand, <<>>, <<>>, <<>>, NoJs)      \* {}
FNone == FNode("none", <<>>, NoOperand, <<>>, <<>>, <<>>, NoJs)      \* null
FEq(field, op) == FNode("eq", field, op, <<>>, <<>>, <<>>, NoJs)     \* { f: op }
FNot(field, op) == FNode("not", field, op, <<>>, <<>>, <<>>, NoJs)
FNull(field) == FNode("null", field, NoOperand, <<>>, <<>>, <<>>, NoJs)
FNotNull(field) == FNode("notnull", field, NoOperand, <<>>, <<>>, <<>>, NoJs)
FIn(field, vals) == FNode("in", field, NoOperand, <<>>, vals, <<>>, NoJs)
\* { rel: { some: { f: op } } }
FSome(rel, field, op) == FNode("some", field, op, rel, <<>>, <<>>, NoJs)
\* { rel: { f: op } }
FIs(rel, field, op) == FNode("is", field, op, rel, <<>>, <<>>, NoJs)
FOr(args) == FNode("OR", <<>>, NoOperand, <<>>, <<>>, args, NoJs)
FAnd(args) == FNode("AND", <<>>, NoOperand, <<>>, <<>>, args, NoJs)
\* if (check) { return {}; } return data;
FIf(check, data) == FNode("if", <<>>, NoOperand, <<>>, <<>>, <<data>>, check)

convertToUserFieldPath(ms, userField, userVar) ==
    LET userModel == UserModel(ms)
        userHasField == FieldInfo(userModel, userField)
    IN IF userField = n_id
       THEN PathOp(userVar, <<Step(n_id, TRUE)>>)
       ELSE IF userHasField # NoField /\ ~userHasField.isRelation
       THEN PathOp(userVar, <<Step(userField, TRUE)>>)
       ELSE IF endsWith(userField, n__id)
       THEN PathOp(userVar, <<Step(SubSeq(userField, 1, Len(userField) - 3), FALSE),
                              Step(n_id, TRUE)>>)
       ELSE PathOp(userVar, <<Step(userField, TRUE)>>)

n_s == <<"s">>

IsJunction(relationInfo) == Len(relationInfo.fields) > 1

buildRelationFilter(ms, relationInfo, fieldName, value) ==
    IF ModelInfo(ms, relationInfo.object) = NoModel
    THEN FSome(relationInfo.name, fieldName, value)
    ELSE IF IsJunction(relationInfo)
    THEN FSome(relationInfo.name, fieldName, value)
    ELSE IF endsWith(relationInfo.name, n_s) \/ relationInfo.fields # <<>>
    THEN FSome(relationInfo.name, fieldName, value)
    ELSE FIs(relationInfo.name, fieldName, value)

\* relations whose target model is known, in declaration order
KnownRelations(ms, rels, name) ==
    SelectSeq(ModelRelations(rels, name),
              LAMBDA r : ModelInfo(ms, r.object) # NoModel)

\* first pass: the first junction relation whose key holds the field
JunctionFor(ms, rels, name, fieldName) ==
    SelectSeq(KnownRelations(ms, rels, name),
              LAMBDA r : IsJunction(r) /\ SeqHas(r.fields, fieldName))

\* second pass: the first relation whose target declares the field
RegularFor(ms, rels, name, fieldName) ==
    SelectSeq(KnownRelations(ms, rels, name),
              LAMBDA r :
                  LET f == FieldInfo(ModelInfo(ms, r.object), fieldName)
                  IN f # NoField /\ ~f.isRelation)

\* the lookup with one pass over the relations: the first relation, junction
\* or not, that leads to the field
buildUserFieldFilterOnePass(ms, rels, name, fieldName, userField, userVar) ==
    LET modelInfo == ModelInfo(ms, name)
        field == FieldInfo(modelInfo, fieldName)
        userFieldPath == convertToUserFieldPath(ms, userField, userVar)
        leads(r) == \/ IsJunction(r) /\ SeqHas(r.fields, fieldName)
                    \/ LET f == FieldInfo(ModelInfo(ms, r.object), fieldName)
                       IN f # NoField /\ ~f.isRelation
        found == SelectSeq(KnownRelations(ms, rels, name), leads)
    IN IF modelInfo = NoModel THEN FNone
       ELSE IF field # NoField /\ ~field.isRelation
       THEN FEq(fieldName, userFieldPath)
       ELSE IF found # <<>>
       THEN buildRelationFilter(ms, found[1], fieldName, userFieldPath)
       ELSE FEq(fieldName, userFieldPath)

buildUserFieldFilter(ms, rels, name, fieldName, userField, userVar) ==
    LET modelInfo == ModelInfo(ms, name)
        field == FieldInfo(modelInfo, fieldName)
        userFieldPath == convertToUserFieldPath(ms, userField, userVar)
        junction == JunctionFor(ms, rels, name, fieldName)
        regular == RegularFor(ms, rels, name, fieldName)
    IN IF modelInfo = NoModel THEN FNone
       ELSE IF field # NoField /\ ~field.isRelation
       THEN FEq(fieldName, userFieldPath)
       ELSE IF junction # <<>>
       THEN buildRelationFilter(ms, junction[1], fieldName, userFieldPath)
       ELSE IF regular # <<>>
       THEN buildRelationFilter(ms, regular[1], fieldName, userFieldPath)
       ELSE FEq(fieldName, userFieldPath)

IsUserFilter(f) == f.type \in {"user_", "session_"}
\* a builder that takes no filter for a role filter
NeverRoleFilter(f) == FALSE
IsRoleFilter(f) == f.userField = n_role
IsRoleCondition(c) == c.type \in {"role_any", "role_equal"}

\* the role check of one condition, as buildFilter and the builders render it
RoleCheckOf(c, userVar) ==
    IF c.type = "role_any"
    THEN JsIncludes(c.roles, UserRolePath(userVar))
    ELSE JsEq(UserRolePath(userVar), StrOp(c.role))

\* one entry of analysis.filters as a Prisma filter; FNone when none is pushed
FilterOf(ms, rels, name, filter, userVar) ==
    IF IsUserFilter(filter)
    THEN IF IsRoleFilter(filter) THEN FNone
         ELSE buildUserFieldFilter(ms, rels, name, filter.field,
                                   filter.userField, userVar)
    ELSE IF filter.type = "equal" THEN FEq(filter.field, LitOp(filter.value))
    ELSE IF filter.type = "not_equal" THEN FNot(filter.field, StrOp(filter.value))
    ELSE IF filter.type = "is_null" THEN FNull(filter.field)
    ELSE IF filter.type = "not_null" THEN FNotNull(filter.field)
    ELSE IF filter.type = "in"
    THEN FIn(filter.field, [k \in 1..Len(filter.values) |-> LitOp(filter.values[k])])
    ELSE FNone

buildFilter(ms, rels, name, an, userVar) ==
    LET all == [k \in 1..Len(an.filters) |->
                    FilterOf(ms, rels, name, an.filters[k], userVar)]
        filters == SelectSeq(all, LAMBDA f : f # FNone)
        roleConditions == SelectSeq(an.conditions, IsRoleCondition)
        hasRoleConditions == roleConditions # <<>>
        hasOrLogic == HasSpaced(an.sql, W(n_OR))
        roleChecks == [k \in 1..Len(roleConditions) |->
                           RoleCheckOf(roleConditions[k], userVar)]
        roleCheck == IF Len(roleChecks) > 1 THEN JsOr(roleChecks) ELSE roleChecks[1]
        dataFilter == IF Len(filters) = 1 THEN filters[1] ELSE FAnd(filters)
        uniqueFilters == Dedup(filters)
    IN IF an.filters = <<>> THEN FPass
       ELSE IF hasRoleConditions /\ hasOrLogic /\ Len(filters) > 0
       THEN FIf(roleCheck, dataFilter)
       ELSE IF Len(filters) = 0 THEN FPass
       ELSE IF Len(uniqueFilters) = 1 THEN uniqueFilters[1]
       ELSE IF hasOrLogic THEN FOr(uniqueFilters)
       ELSE FAnd(uniqueFilters)

\* data?.field
DataPath(dataVar, fieldName) == PathOp(dataVar, <<Step(fieldName, TRUE)>>)

buildUserFieldJavaScript(ms, rels, name, fieldName, userField, dataVar, userVar) ==
    LET modelInfo == ModelInfo(ms, name)
        field == FieldInfo(modelInfo, fieldName)
        userFieldPath == convertToUserFieldPath(ms, userField, userVar)
        junction == JunctionFor(ms, rels, name, fieldName)
        regular == RegularFor(ms, rels, name, fieldName)
    IN IF modelInfo = NoModel THEN NoJs
       ELSE IF field # NoField /\ ~field.isRelation
       THEN JsEq(DataPath(dataVar, fieldName), userFieldPath)
       ELSE IF junction # <<>>
       THEN JsFind(DataPath(dataVar, junction[1].name), fieldName, userFieldPath)
       ELSE IF regular # <<>>
       THEN IF endsWith(regular[1].name, n_s) \/ IsJunction(regular[1])
            THEN JsFind(DataPath(dataVar, regular[1].name), fieldName, userFieldPath)
            ELSE JsEq(PathOp(dataVar, <<Step(regular[1].name, TRUE),
                                        Step(fieldName, TRUE)>>),
                      userFieldPath)
       ELSE JsEq(DataPath(dataVar, fieldName), userFieldPath)

\* condition.javascript.replace(/user/g, userVar) on the paths of a condition
ReplaceUser(js, userVar) ==
    LET re(op) == IF op.o = "path" /\ op.base = n_user
                  THEN PathOp(userVar, op.steps) ELSE op
    IN [js EXCEPT !.l = re(js.l), !.r = re(js.r)]

\* one entry of analysis.filters as a JavaScript condition; NoJs when none
ConditionOfFilter(ms, rels, name, filter, dataVar, userVar) ==
    IF IsUserFilter(filter)
    THEN IF IsRoleFilter(filter) THEN NoJs
         ELSE buildUserFieldJavaScript(ms, rels, name, filter.field,
                                       filter.userField, dataVar, userVar)
    ELSE IF filter.type = "equal"
    THEN JsEq(DataPath(dataVar, filter.field), LitOp(filter.value))
    ELSE NoJs

\* one entry of analysis.conditions as a JavaScript condition; NoJs when none
ConditionOfCondition(c, userVar) ==
    IF c.javascript # NoJs THEN ReplaceUser(c.javascript, userVar)
    ELSE IF IsRoleCondition(c) THEN RoleCheckOf(c, userVar)
    ELSE NoJs

buildJavaScriptCondition(ms, rels, name, an, dataVar, userVar) ==
    LET all == [k \in 1..Len(an.filters) |->
                    ConditionOfFilter(ms, rels, name, an.filters[k], dataVar, userVar)]
               \o [k \in 1..Len(an.conditions) |->
                    ConditionOfCondition(an.conditions[k], userVar)]
        conditions == SelectSeq(all, LAMBDA c : c # NoJs)
        uniqueConditions == Dedup(conditions)
        hasOrLogic == HasSpaced(an.sql, W(n_OR))
    IN IF conditions = <<>> THEN JsTrue
       ELSE IF Len(uniqueConditions) = 1 THEN uniqueConditions[1]
       ELSE IF hasOrLogic THEN JsOr(uniqueConditions)
       ELSE JsAnd(uniqueConditions)

-----------------------------------------------------------------------------
(* Run-time values of the generated JavaScript, and its evaluation *)

JV(k, v, props, items) == [k |-> k, v |-> v, props |-> props, items |-> items]
Undef == JV("undef", <<>>, <<>>, <<>>)
Null == JV("null", <<>>, <<>>, <<>>)
Thrown == JV("throw", <<>>, <<>>, <<>>)          \* a TypeError or ReferenceError
Str(v) == JV("str", v, <<>>, <<>>)
Num(v) == JV("num", v, <<>>, <<>>)
Bool(b) == JV("bool", IF b THEN n_true ELSE n_false, <<>>, <<>>)
Prop(name, val) == [name |-> name, val |-> val]
Obj(props) == JV("obj", <<>>, props, <<>>)
Arr(items) == JV("arr", <<>>, <<>>, items)

IsNullish(x) == x.k \in {"undef", "null"}
Truthy(x) ==
    /\ x.k \notin {"undef", "null", "throw"}
    /\ ~(x.k = "bool" /\ x.v = n_false)
    /\ ~(x.k = "str" /\ x.v = <<>>)
    /\ ~(x.k = "num" /\ x.v = <<"0">>)

\* x.name for a value that is not nullish
GetProp(x, name) ==
    IF x.k = "obj" /\ \E i \in 1..Len(x.props) : x.props[i].name = name
    THEN x.props[CHOOSE i \in 1..Len(x.props) : x.props[i].name = name].val
    ELSE Undef

\* a === b
StrictEq(a, b) ==
    /\ a.k = b.k
    /\ a.k \in {"undef", "null", "str", "num", "bool"}
    /\ a.v = b.v

\* the rest of a member chain: `?.` ends the whole chain on a nullish value,
\* `.` throws on one
RECURSIVE WalkSteps(_, _, _)
WalkSteps(cur, steps, i) ==
    IF i > Len(steps) THEN cur
    ELSE IF IsNullish(cur)
    THEN IF steps[i].opt THEN Undef ELSE Thrown
    ELSE WalkSteps(GetProp(cur, steps[i].name), steps, i + 1)

n_item == <<"i","t","e","m">>

\* env binds the parameters data and user, and item inside a find callback
VarValue(env, name) ==
    IF name = n_data THEN env.data
    ELSE IF name = n_user THEN env.user
    ELSE IF name = n_item THEN env.item
    ELSE Thrown

EvalOperand(op, env) ==
    IF op.o = "path"
    THEN IF VarValue(env, op.base) = Thrown THEN Thrown
         ELSE WalkSteps(VarValue(env, op.base), op.steps, 1)
    ELSE IF op.o = "call"
    THEN IF VarValue(env, op.base) = Thrown THEN Thrown
         \* user?.f(): no value of the model is a function
         ELSE IF IsNullish(VarValue(env, op.base)) THEN Undef ELSE Thrown
    ELSE IF op.o = "str" THEN Str(op.v)
    ELSE IF op.o = "raw"
    THEN IF op.v \in {n_true, n_false} THEN JV("bool", op.v, <<>>, <<>>)
         ELSE IF IsDigits(op.v) THEN Num(op.v)
         ELSE Thrown
    ELSE Undef

\* arr.find(item => item.field === r): the callback runs once per element
RECURSIVE FindItem(_, _, _, _, _)
FindItem(items, i, field, r, env) ==
    IF i > Len(items) THEN Undef
    ELSE IF IsNullish(items[i]) THEN Thrown
    ELSE LET rv == EvalOperand(r, [env EXCEPT !.item = items[i]])
         IN IF rv = Thrown THEN Thrown
            ELSE IF StrictEq(GetProp(items[i], field), rv) THEN items[i]
            ELSE FindItem(items, i + 1, field, r, env)

RECURSIVE EvalJs(_, _)
RECURSIVE EvalChain(_, _, _, _)
\* a || b || ... (stopAt = TRUE) or a && b && ... (stopAt = FALSE)
EvalChain(args, i, stopAt, env) ==
    LET x == EvalJs(args[i], env)
    IN IF x = Thrown THEN Thrown
       ELSE IF i = Len(args) \/ Truthy(x) = stopAt THEN x
       ELSE EvalChain(args, i + 1, stopAt, env)

EvalJs(js, env) ==
    IF js.k = "true" THEN Bool(TRUE)
    ELSE IF js.k = "false" THEN Bool(FALSE)
    ELSE IF js.k = "eq"
    THEN LET l == EvalOperand(js.l, env)
             r == EvalOperand(js.r, env)
         IN IF l = Thrown \/ r = Thrown THEN Thrown ELSE Bool(StrictEq(l, r))
    ELSE IF js.k = "includes"
    THEN LET r == EvalOperand(js.r, env)
         IN IF r = Thrown THEN Thrown
            ELSE Bool(r.k = "str" /\ SeqHas(js.list, r.v))
    ELSE IF js.k = "or" THEN EvalChain(js.args, 1, TRUE, env)
    ELSE IF js.k = "and" THEN EvalChain(js.args, 1, FALSE, env)
    ELSE IF js.k = "find"
    THEN LET l == EvalOperand(js.l, env)
         IN IF l = Thrown THEN Thrown
            ELSE IF IsNullish(l) THEN Undef
            ELSE IF l.k = "arr" THEN FindItem(l.items, 1, js.note, js.r, env)
            ELSE Thrown
    ELSE Undef

Env(data, user) == [data |-> data, user |-> user, item |-> Undef]

\* the outcome of `return <js>;` in hasAccess: "true", "false" or "throw"
Outcome(js, data, user) ==
    LET x == EvalJs(js, Env(data, user))
    IN IF x = Thrown THEN "throw" ELSE IF Truthy(x) THEN "true" ELSE "false"

-----------------------------------------------------------------------------
(* The query filter applied to a stored record *)

\* the value a record holds for a column: a missing column reads as NULL
Column(rec, field) ==
    IF GetProp(rec, field) = Undef THEN Null ELSE GetProp(rec, field)

\* { field: value }: an undefined value places no condition
MatchesValue(rec, field, val) ==
    \/ val = Undef
    \/ StrictEq(Column(rec, field), val)

RECURSIVE Accepts(_, _, _)
Accepts(f, rec, user) ==
    LET val == EvalOperand(f.op, Env(rec, user))
    IN IF f.k = "pass" THEN TRUE
       ELSE IF f.k = "eq" THEN MatchesValue(rec, f.field, val)
       ELSE IF f.k = "not"
       THEN Column(rec, f.field) # Null /\ ~StrictEq(Column(rec, f.field), val)
       ELSE IF f.k = "null" THEN Column(rec, f.field) = Null
       ELSE IF f.k = "notnull" THEN Column(rec, f.field) # Null
       ELSE IF f.k = "in"
       THEN \E i \in 1..Len(f.vals) :
                StrictEq(Column(rec, f.field), EvalOperand(f.vals[i], Env(rec, user)))
       ELSE IF f.k = "some"
       THEN /\ GetProp(rec, f.rel).k = "arr"
            /\ \E i \in 1..Len(GetProp(rec, f.rel).items) :
                   MatchesValue(GetProp(rec, f.rel).items[i], f.field, val)
       ELSE IF f.k = "is"
       THEN /\ GetProp(rec, f.rel).k = "obj"
            /\ MatchesValue(GetProp(rec, f.rel), f.field, val)
       ELSE IF f.k = "OR" THEN \E i \in 1..Len(f.args) : Accepts(f.args[i], rec, user)
       ELSE IF f.k = "AND" THEN \A i \in 1..Len(f.args) : Accepts(f.args[i], rec, user)
       ELSE FALSE

\* the filter the generated filter function returns for an actor
FilterFor(f, user) ==
    IF f.k = "if"
    THEN IF Outcome(f.check, Undef, user) = "true" THEN FPass ELSE f.args[1]
    ELSE f

-----------------------------------------------------------------------------
(* createEnhancedConverter, for a model name and a non-empty set of models *)

EnhancedToJavaScript(ms, rels, text, dataVar, userVar, name) ==
    IF text = <<>> THEN JsTrue
    ELSE buildJavaScriptCondition(ms, rels, name,
             [analyzeSQLForFilters(text) EXCEPT !.sql = text], dataVar, userVar)

EnhancedToPrismaFilter(ms, rels, text, userVar, name) ==
    IF text = <<>> THEN FPass
    ELSE buildFilter(ms, rels, name,
             [analyzeSQLForFilters(text) EXCEPT !.sql = text], userVar)

-----------------------------------------------------------------------------
(* generateFunction: the body of canCreate / hasAccess for a list of policies *)

\* c === 'true' || c.startsWith('true /*')
IsTrueText(js) == js.k = "true"

\* conds are the converted expressions of the policies that have one
generateFunction(conds) ==
    IF conds = <<>> THEN JsTrue
    ELSE IF \E i \in 1..Len(conds) : IsTrueText(conds[i]) THEN JsTrue
    ELSE IF Len(conds) = 1 THEN conds[1]
    ELSE JsOr(conds)

-----------------------------------------------------------------------------
(* relationshipsGenerator *)

\* fields.indexOf(x), counted from 1; 0 when absent
IndexOf(xs, x) ==
    IF SeqHas(xs, x) THEN CHOOSE i \in 1..Len(xs) : xs[i] = x /\ \A j \in 1..i - 1 : xs[j] # x
    ELSE 0

\* xs.join('_')
RECURSIVE JoinUnderscore(_)
JoinUnderscore(xs) ==
    IF xs = <<>> THEN <<>>
    ELSE IF Len(xs) = 1 THEN xs[1]
    ELSE xs[1] \o <<"_">> \o JoinUnderscore(Tail(xs))

\* `${modelName.toLowerCase()}_id`
ModelFk(name) == toLowerCase(name) \o n__id

\* the key of a model, and whether the array is the model's own compositeKey
getCompositeKeyFromModel(modelInfo) ==
    LET compositeFields ==
            SelectSeq(modelInfo.fields, LAMBDA f : f.isId /\ ~f.isRelation)
        names == [k \in 1..Len(compositeFields) |-> compositeFields[k].name]
    IN IF Len(modelInfo.compositeKey) > 1
       THEN [key |-> modelInfo.compositeKey, own |-> TRUE]
       ELSE IF Len(names) > 1 THEN [key |-> names, own |-> FALSE]
       ELSE [key |-> <<>>, own |-> FALSE]

\* the reordering without the copy: splice and unshift on the argument array
reorderInPlace(fields, currentModelName) ==
    LET currentModelField == ModelFk(currentModelName)
        index == IndexOf(fields, currentModelField)
        moved == <<currentModelField>> \o SubSeq(fields, 1, index - 1)
                 \o SubSeq(fields, index + 1, Len(fields))
    IN IF index > 1 THEN [reordered |-> moved, fields |-> moved]
       ELSE [reordered |-> fields, fields |-> fields]

\* reordered is the returned array, fields the argument array after the call
reorderFieldsForModel(fields, currentModelName) ==
    LET currentModelField == ModelFk(currentModelName)
        index == IndexOf(fields, currentModelField)
    IN IF index > 1
       THEN [reordered |-> <<currentModelField>>
                           \o SubSeq(fields, 1, index - 1)
                           \o SubSeq(fields, index + 1, Len(fields)),
             fields |-> fields]
       ELSE [reordered |-> fields, fields |-> fields]

\* the foreign key of a relation, or the empty name for null
findForeignKeyField(relation, currentModel, relatedModel) ==
    LET back == SelectSeq(relatedModel.fields,
                    LAMBDA f : /\ f.kind = "object"
                               /\ f.relationName = relation.relationName
                               /\ Len(f.relationFromFields) > 0)
    IN IF relation.isArray
       THEN IF back # <<>> THEN back[1].relationFromFields[1] ELSE <<>>
       ELSE IF Len(relation.relationFromFields) > 0
       THEN relation.relationFromFields[1]
       ELSE <<>>

ModelIndex(ms, name) ==
    IF \E i \in 1..Len(ms) : ms[i].name = name
    THEN CHOOSE i \in 1..Len(ms) : ms[i].name = name
    ELSE 0

\* one pass of the inner loop: st holds the models and the entries so far
RelationStep(st, mi, ri) ==
    LET ms == st.models
        modelInfo == ms[mi]
        relation == modelInfo.relations[ri]
        relatedIndex == ModelIndex(ms, relation.type)
        relatedModel == ms[relatedIndex]
        composite == getCompositeKeyFromModel(relatedModel)
        compositeKeyFields == composite.key
        currentModelFk == ModelFk(modelInfo.name)
        isJunctionTable == /\ Len(compositeKeyFields) > 1
                           /\ relation.isArray
                           /\ SeqHas(compositeKeyFields, currentModelFk)
        re == reorderFieldsForModel(compositeKeyFields, modelInfo.name)
        foreignKeyField == findForeignKeyField(relation, modelInfo, relatedModel)
    IN IF relatedIndex = 0 THEN st
       ELSE IF isJunctionTable
       THEN [models |-> IF composite.own
                        THEN [ms EXCEPT ![relatedIndex].compositeKey = re.fields]
                        ELSE ms,
             entries |-> Append(st.entries,
                            RelInfo(relation.name, relation.type,
                                    JoinUnderscore(re.fields), re.reordered))]
       ELSE IF foreignKeyField = <<>> THEN st
       ELSE [models |-> ms,
             entries |-> Append(st.entries,
                            RelInfo(relation.name, relation.type, foreignKeyField, <<>>))]

RECURSIVE RelationLoop(_, _, _)
RelationLoop(st, mi, ri) ==
    IF ri > Len(st.models[mi].relations) THEN st
    ELSE RelationLoop(RelationStep(st, mi, ri), mi, ri + 1)

\* the outer loop: out holds the models and relationships so far
RECURSIVE ModelLoop(_, _)
ModelLoop(out, mi) ==
    IF mi > Len(out.models) THEN out
    ELSE LET st == RelationLoop([models |-> out.models, entries |-> <<>>], mi, 1)
         IN ModelLoop([models |-> st.models,
                       relationships |-> Append(out.relationships,
                           [model |-> out.models[mi].name, relations |-> st.entries])],
                      mi + 1)

generateRelationships(ms) == ModelLoop([models |-> ms, relationships |-> <<>>], 1)

-----------------------------------------------------------------------------
(* A school schema: the models the parser hands over *)

n_course == <<"c","o","u","r","s","e">>
n_owner == <<"o","w","n","e","r">>
n_author_id == <<"a","u","t","h","o","r","_","i","d">>
n_rel_post_owner == <<"r","e","l","_","p","o","s","t","_","o","w","n","e","r">>
n_rel_course_students == <<"r","e","l","_","c","o","u","r","s","e","_","s","t","u","d","e","n","t","s">>
n_rel_course_enrollments == <<"r","e","l","_","c","o","u","r","s","e","_","e","n","r","o","l","l","m","e","n","t","s">>
n_rel_course_teacher == <<"r","e","l","_","c","o","u","r","s","e","_","t","e","a","c","h","e","r">>
n_enrollments_dot_student_id == <<"e","n","r","o","l","l","m","e","n","t","s",".","s","t","u","d","e","n","t","_","i","d">>

ScalarField(name) == Field(name, FALSE, FALSE)
IdField(name) == Field(name, FALSE, TRUE)

UserModelDef ==
    Model(n_User, <<IdField(n_id), ScalarField(n_role), ScalarField(n_name)>>,
          <<>>, <<>>)

PostModel ==
    Model(n_Post,
          <<IdField(n_id), ScalarField(n_owner_id), ScalarField(n_target_id),
            ScalarField(n_status), ScalarField(n_deleted_at),
            RelField(n_owner, n_rel_post_owner, <<n_owner_id>>)>>,
          <<Relation(n_owner, n_User, FALSE, n_rel_post_owner, <<n_owner_id>>)>>,
          <<>>)

TeacherModel ==
    Model(n_Teacher, <<IdField(n_id), ScalarField(n_name)>>, <<>>, <<>>)

\* the junction between Course and Student, with its key in the given order
CourseStudentModel(key) ==
    Model(n_CourseStudent,
          <<ScalarField(n_course_id), ScalarField(n_student_id),
            ScalarField(n_teacher_id),
            RelField(n_course, n_rel_course_students, <<n_course_id>>)>>,
          <<Relation(n_course, n_Course, FALSE, n_rel_course_students, <<n_course_id>>)>>,
          key)

EnrollmentModel ==
    Model(n_Enrollment,
          <<IdField(n_id), ScalarField(n_course_id), ScalarField(n_student_id),
            ScalarField(n_status),
            RelField(n_course, n_rel_course_enrollments, <<n_course_id>>)>>,
          <<Relation(n_course, n_Course, FALSE, n_rel_course_enrollments, <<n_course_id>>)>>,
          <<>>)

StudentsRelation == Relation(n_students, n_CourseStudent, TRUE, n_rel_course_students, <<>>)
EnrollmentsRelation == Relation(n_enrollments, n_Enrollment, TRUE, n_rel_course_enrollments, <<>>)
TeacherRelation == Relation(n_teacher, n_Teacher, FALSE, n_rel_course_teacher, <<n_teacher_id>>)

\* Course with its relations declared in the given order
CourseModel(relations) ==
    Model(n_Course,
          <<IdField(n_id), ScalarField(n_name), ScalarField(n_teacher_id),
            ScalarField(n_status)>>
          \o [k \in 1..Len(relations) |->
                 RelField(relations[k].name, relations[k].relationName,
                          relations[k].relationFromFields)],
          relations, <<>>)

SchoolModels(relations, key) ==
    <<UserModelDef, PostModel, CourseModel(relations), CourseStudentModel(key),
      EnrollmentModel, TeacherModel>>

SchemaModels ==
    SchoolModels(<<EnrollmentsRelation, StudentsRelation, TeacherRelation>>,
                 <<n_student_id, n_course_id>>)

-----------------------------------------------------------------------------
(* Row-level-security policies: the atoms of a predicate and its text *)

Atom(a, field, provider, roles, value, table) ==
    [a |-> a, field |-> field, provider |-> provider, roles |-> roles,
     value |-> value, table |-> table]

\* provider() = ANY(ARRAY['r1', ...])
RoleAny(provider, roles) == Atom("role_any", <<>>, provider, roles, <<>>, <<>>)
\* provider() = 'role'
RoleIs(provider, role) == Atom("role_equal", <<>>, provider, <<>>, role, <<>>)
\* field = provider()
FieldIsActor(field, provider) == Atom("actor", field, provider, <<>>, <<>>, <<>>)
\* field = 'value' or field = 42
FieldIs(field, value) == Atom("equal", field, <<>>, <<>>, value, <<>>)
\* field != 'value'
FieldIsNot(field, value) == Atom("not_equal", field, <<>>, <<>>, value, <<>>)
FieldIsNull(field) == Atom("is_null", field, <<>>, <<>>, <<>>, <<>>)
FieldNotNull(field) == Atom("not_null", field, <<>>, <<>>, <<>>, <<>>)
\* field IN ('v1', ...)
FieldIn(field, values) == Atom("in", field, <<>>, values, <<>>, <<>>)
\* EXISTS (SELECT 1 FROM table WHERE table.student_id = current_student_id())
Exists(table) == Atom("exists", <<>>, <<>>, <<>>, <<>>, table)

\* 'v', or the bare number
LiteralToken(v) == IF IsDigits(v) THEN W(v) ELSE Q(v)

\* 'v1', 'v2', ...
RECURSIVE LiteralList(_)
LiteralList(vs) ==
    IF vs = <<>> THEN <<>>
    ELSE IF Len(vs) = 1 THEN <<LiteralToken(vs[1])>>
    ELSE <<LiteralToken(vs[1]), P(",")>> \o LiteralList(Tail(vs))

AtomText(x) ==
    IF x.a = "role_any"
    THEN <<W(x.provider), LP, RP, EQ, W(n_ANY), LP, W(n_ARRAY), P("[")>>
         \o LiteralList(x.roles) \o <<P("]"), RP>>
    ELSE IF x.a = "role_equal" THEN <<W(x.provider), LP, RP, EQ, Q(x.value)>>
    ELSE IF x.a = "actor" THEN <<W(x.field), EQ, W(x.provider), LP, RP>>
    ELSE IF x.a = "equal" THEN <<W(x.field), EQ, LiteralToken(x.value)>>
    ELSE IF x.a = "not_equal" THEN <<W(x.field), P("!="), LiteralToken(x.value)>>
    ELSE IF x.a = "is_null" THEN <<W(x.field), W(n_IS), W(n_NULL)>>
    ELSE IF x.a = "not_null" THEN <<W(x.field), W(n_IS), W(n_NOT), W(n_NULL)>>
    ELSE IF x.a = "in" THEN <<W(x.field), W(n_IN), LP>> \o LiteralList(x.roles) \o <<RP>>
    ELSE <<W(n_EXISTS), LP, W(n_SELECT), W(n_num1), W(n_FROM), W(x.table),
           W(n_WHERE), W(x.table \o <<".">> \o n_student_id), EQ,
           W(n_current_student_id), LP, RP, RP>>

\* a predicate: atoms joined left to right by AND / OR, without parentheses
Policy(atoms, ops) == [atoms |-> atoms, ops |-> ops]

RECURSIVE PolicyText(_, _)
PolicyText(p, i) ==
    IF i > Len(p.atoms) THEN <<>>
    ELSE (IF i = 1 THEN <<>>
          ELSE <<W(IF p.ops[i - 1] = "OR" THEN n_OR ELSE n_AND)>>)
         \o AtomText(p.atoms[i]) \o PolicyText(p, i + 1)

Render(p) == PolicyText(p, 1)

-----------------------------------------------------------------------------
(* The policies, actors and records the pipeline is run on *)

MaxAtoms == 3      \* atoms in one predicate
MaxRoles == 2      \* roles in one ANY(ARRAY[...]) list

RoleNames == <<n_admin, n_mod, n_guest>>
RoleLists == {SubSeq(RoleNames, 1, n) : n \in 1..MaxRoles}
RoleProviders == {n_current_user_role, n_get_current_user_role, n_auth_dot_role}
IdProviders == {n_current_user_id, n_auth_dot_uid}
OwnerFields == {n_owner_id, n_target_id}

\* <role provider>() = ANY(ARRAY[...]) OR <field> = <id provider>()
RoleOrOwnerPolicies ==
    {Policy(<<RoleAny(rp, rl), FieldIsActor(f, ip)>>, <<"OR">>) :
        rp \in RoleProviders, rl \in RoleLists, f \in OwnerFields, ip \in IdProviders}

DirectAtoms ==
    {FieldIs(n_status, n_active), FieldIs(n_status, n_num42),
     FieldIsNot(n_status, n_active),
     FieldIsNull(n_deleted_at), FieldNotNull(n_deleted_at),
     FieldIn(n_status, <<n_active, n_text>>)}

ActorAtoms ==
    {FieldIsActor(n_owner_id, n_current_user_id),
     FieldIsActor(n_student_id, n_current_student_id),
     FieldIsActor(n_ghost_id, n_current_user_id)}

PairAtoms ==
    DirectAtoms \cup ActorAtoms
    \cup {Exists(n_enrollments), RoleIs(n_current_user_role, n_admin)}

\* the atoms of the predicates with three atoms or more
CoreAtoms ==
    {FieldIs(n_status, n_active), FieldIsNull(n_deleted_at),
     FieldIsActor(n_owner_id, n_current_user_id)}

Connectives == {"AND", "OR"}

LongPolicies ==
    UNION {{Policy(as, os) : as \in [1..n -> CoreAtoms],
                             os \in [1..n - 1 -> Connectives]} : n \in 3..MaxAtoms}

Policies ==
    {Policy(<<>>, <<>>)}
    \cup {Policy(<<a>>, <<>>) : a \in PairAtoms}
    \cup {Policy(<<a, b>>, <<o>>) : a \in PairAtoms, b \in PairAtoms, o \in Connectives}
    \cup RoleOrOwnerPolicies
    \cup LongPolicies

ModelNames == {n_Post, n_Course, n_Enrollment, n_Nowhere}

UserAdmin == Obj(<<Prop(n_id, Str(n_u1)), Prop(n_role, Str(n_admin))>>)
UserGuest == Obj(<<Prop(n_id, Str(n_u1)), Prop(n_role, Str(n_guest))>>)
UserMod == Obj(<<Prop(n_id, Str(n_u2)), Prop(n_role, Str(n_mod))>>)
UserStudent ==
    Obj(<<Prop(n_id, Str(n_u2)), Prop(n_role, Str(n_guest)),
          Prop(n_student, Obj(<<Prop(n_id, Str(n_u1))>>))>>)
\* the actors a generated function may be called with
Actors == {Undef, Null, Obj(<<>>), UserAdmin, UserGuest, UserMod, UserStudent}

RecordOf(owner, status, deleted) ==
    Obj(<<Prop(n_id, Str(n_num1)), Prop(n_owner_id, owner), Prop(n_target_id, owner),
          Prop(n_student_id, owner),
          Prop(n_status, status), Prop(n_deleted_at, deleted)>>)
\* stored records
StoredRecords ==
    {RecordOf(o, s, d) : o \in {Str(n_u1), Str(n_u2), Null},
                         s \in {Str(n_active), Str(n_text), Num(n_num42)},
                         d \in {Null, Str(n_text)}}
\* the records hasAccess may be called with
Records == StoredRecords \cup {Undef, Null, Obj(<<>>)}

-----------------------------------------------------------------------------
(* The access-control generator run on one policy of one model *)

NotBuilt == FNode("unset", <<>>, NoOperand, <<>>, <<>>, <<>>, NoJs)

InitRLS ==
    /\ pc = {}
    /\ models = SchemaModels
    /\ relationships = generateRelationships(SchemaModels).relationships
    /\ policy \in Policies
    /\ modelName \in IF Len(policy.atoms) <= 1 THEN ModelNames ELSE {n_Post}
    /\ sql = Render(policy)
    /\ analysis = EmptyAnalysis
    /\ prismaFilter = NotBuilt
    /\ jsExpr = NoJs
    /\ fnCode = NoJs
    /\ functionAnalysis = NoAnalysis
    /\ ast = NoAst

\* converter.convertToPrismaFilter(expr, 'user', modelName)
ConvertToPrismaFilter ==
    /\ "filter" \notin pc
    /\ pc' = pc \cup {"filter"}
    /\ analysis' = IF sql = <<>> THEN analysis
                   ELSE [analyzeSQLForFilters(sql) EXCEPT !.sql = sql]
    /\ prismaFilter' = EnhancedToPrismaFilter(models, relationships, sql, n_user, modelName)
    /\ UNCHANGED <<ast, functionAnalysis, models, relationships, modelName, policy, sql, jsExpr, fnCode>>

\* converter.convertToJavaScript(expr, 'data', 'user', modelName)
ConvertToJavaScript ==
    /\ "javascript" \notin pc
    /\ pc' = pc \cup {"javascript"}
    /\ analysis' = IF sql = <<>> THEN analysis
                   ELSE [analyzeSQLForFilters(sql) EXCEPT !.sql = sql]
    /\ jsExpr' = EnhancedToJavaScript(models, relationships, sql, n_data, n_user, modelName)
    /\ UNCHANGED <<ast, functionAnalysis, models, relationships, modelName, policy, sql, prismaFilter, fnCode>>

\* generateFunction([policy], 'using', converter, modelName)
GenerateFunction ==
    /\ "function" \notin pc
    /\ pc' = pc \cup {"function"}
    /\ fnCode' = generateFunction(
                    IF sql = <<>> THEN <<>>
                    ELSE <<EnhancedToJavaScript(models, relationships, sql,
                                                n_data, n_user, modelName)>>)
    /\ UNCHANGED <<ast, functionAnalysis, models, relationships, modelName, policy, sql, analysis,
                   prismaFilter, jsExpr>>

NextRLS == ConvertToPrismaFilter \/ ConvertToJavaScript \/ GenerateFunction

SpecRLS == InitRLS /\ [][NextRLS]_vars

-----------------------------------------------------------------------------
(* Properties of the generator run on one policy *)

\* user?.id
ActorIdPath == PathOp(n_user, <<Step(n_id, TRUE)>>)

\* the role of an actor, as the role check reads it
ActorRole(u) == IF IsNullish(u) THEN Undef ELSE GetProp(u, n_role)

IsRoleOrOwner(p) ==
    /\ Len(p.atoms) = 2 /\ p.ops = <<"OR">>
    /\ p.atoms[1].a = "role_any" /\ p.atoms[2].a = "actor"
    /\ p.atoms[2].provider \in IdProviders

\* C1: for `<role provider>() = ANY(ARRAY[r1..rn]) OR <field> = <id provider>()`
\* on a model that declares the field, the compiled filter is a conditional:
\* for an actor whose role is one of r1..rn it returns the pass filter {},
\* and for every other actor exactly { field: user?.id }.
C1_RoleDataSplit ==
    ("filter" \in pc /\ IsRoleOrOwner(policy)
        /\ FieldInfo(ModelInfo(models, modelName), policy.atoms[2].field) # NoField)
    => /\ prismaFilter.k = "if"
       /\ \A u \in Actors :
              FilterFor(prismaFilter, u) =
                  IF ActorRole(u).k = "str" /\ SeqHas(policy.atoms[1].roles, ActorRole(u).v)
                  THEN FPass
                  ELSE FEq(policy.atoms[2].field, ActorIdPath)

HasExists(p) == \E i \in 1..Len(p.atoms) : p.atoms[i].a = "exists"

\* the other atom of a two-atom predicate with one EXISTS
IsDataWithExists(p) ==
    /\ Len(p.atoms) = 2
    /\ \E i \in 1..2 : p.atoms[i].a = "exists" /\ p.atoms[3 - i].a # "exists"
DataAtomOf(p) == IF p.atoms[1].a = "exists" THEN p.atoms[2] ELSE p.atoms[1]

\* the predicate compiled for one atom on its own
CompiledAlone(atom) ==
    EnhancedToJavaScript(models, relationships, Render(Policy(<<atom>>, <<>>)),
                         n_data, n_user, modelName)

\* C2: an EXISTS sub-expression counts as the constant true inside the
\* predicate: D OR EXISTS(...) is true for every record and actor, and
\* D AND EXISTS(...) is the predicate compiled for D.
C2_ExistsIsTrue ==
    ("javascript" \in pc /\ IsDataWithExists(policy))
    => IF policy.ops = <<"OR">>
       THEN \A d \in Records, u \in Actors : Outcome(jsExpr, d, u) = "true"
       ELSE jsExpr = CompiledAlone(DataAtomOf(policy))

IsExistsOnly(p) == Len(p.atoms) = 1 /\ p.atoms[1].a = "exists"

ExistsRecords == SelectSeq(analysis.conditions, LAMBDA c : c.type = "exists")

\* C3: compiling EXISTS (SELECT ... FROM <entity> WHERE ...) yields the
\* predicate true and exactly one record of the unresolved construct that
\* names the entity, and the function body assembled for the model still
\* carries a label naming the entity.
C3_ExistsLabelKept ==
    ({"javascript", "function"} \subseteq pc /\ IsExistsOnly(policy))
    => /\ jsExpr.k = "true"
       /\ Len(ExistsRecords) = 1
       /\ ExistsRecords[1].table = policy.atoms[1].table
       /\ includes(fnCode.note, policy.atoms[1].table)

IsDirectOnly(p) ==
    /\ Len(p.atoms) >= 1
    /\ \A i \in 1..Len(p.atoms) :
           p.atoms[i].a \in {"equal", "not_equal", "is_null", "not_null", "in"}

\* C5: for a predicate built from direct-field comparisons joined by AND/OR,
\* hasAccess accepts a record exactly when the record satisfies the query
\* filter compiled for the same actor.
C5_BackendsAgree ==
    ({"javascript", "filter"} \subseteq pc /\ IsDirectOnly(policy))
    => \A d \in StoredRecords, u \in Actors :
           (Outcome(jsExpr, d, u) = "true") <=> Accepts(FilterFor(prismaFilter, u), d, u)

\* the filter compiled for one atom on its own
FilterAlone(atom) ==
    EnhancedToPrismaFilter(models, relationships, Render(Policy(<<atom>>, <<>>)),
                           n_user, modelName)

IsMixed(p) ==
    /\ Len(p.atoms) = 3
    /\ p.ops \in {<<"AND", "OR">>, <<"OR", "AND">>}
    /\ \A i, j \in 1..3 : i # j => p.atoms[i] # p.atoms[j]

\* C6: AND binds tighter than OR: a AND b OR c compiles to Or(And(a, b), c)
\* and a OR b AND c to Or(a, And(b, c)), never to one flat connective.
C6_AndBindsTighter ==
    ("filter" \in pc /\ IsMixed(policy))
    => LET a == FilterAlone(policy.atoms[1])
           b == FilterAlone(policy.atoms[2])
           c == FilterAlone(policy.atoms[3])
       IN prismaFilter = IF policy.ops = <<"AND", "OR">>
                         THEN FOr(<<FAnd(<<a, b>>), c>>)
                         ELSE FOr(<<a, FAnd(<<b, c>>)>>)

IsActorComparison(p) ==
    /\ Len(p.atoms) = 1 /\ p.atoms[1].a = "actor"
    /\ FieldInfo(ModelInfo(models, modelName), p.atoms[1].field) # NoField

\* the actor field a path names, read with every step guarded
SafeValue(path, u) ==
    EvalOperand([path EXCEPT !.steps = [k \in 1..Len(path.steps) |->
                                           Step(path.steps[k].name, TRUE)]],
                Env(Undef, u))

\* C7: a compiled comparison of a record field with an actor field never
\* throws, and is false when the record, the record field, the actor or the
\* actor field (or a relation of the actor on the way to it) is missing or null.
C7_MissingIsUnequal ==
    ("javascript" \in pc /\ IsActorComparison(policy))
    => \A d \in Records, u \in Actors :
           /\ Outcome(jsExpr, d, u) # "throw"
           /\ (\/ IsNullish(d)
               \/ IsNullish(GetProp(d, policy.atoms[1].field))
               \/ IsNullish(SafeValue(jsExpr.r, u)))
              => Outcome(jsExpr, d, u) = "false"

\* the field is declared neither by the model nor by the target of a relation
IsUnknownReference(p) ==
    /\ Len(p.atoms) = 1 /\ p.atoms[1].a = "actor"
    /\ \/ ModelInfo(models, modelName) = NoModel
       \/ /\ FieldInfo(ModelInfo(models, modelName), p.atoms[1].field) = NoField
          /\ \A i \in 1..Len(ModelRelations(relationships, modelName)) :
                 FieldInfo(ModelInfo(models,
                               ModelRelations(relationships, modelName)[i].object),
                           p.atoms[1].field) = NoField

\* C8: a field that is found neither on the model nor on the target of one of
\* its relations, or an unknown model, is an error: neither a filter that
\* compares the field directly nor the pass filter is produced in its place.
C8_UnknownIsError ==
    ("filter" \in pc /\ IsUnknownReference(policy))
    => /\ prismaFilter.k # "eq"
       /\ prismaFilter # FPass

-----------------------------------------------------------------------------
(* autoRLSConverter: createConverter() with no analysed mappings *)

n_get_current_ == <<"g","e","t","_","c","u","r","r","e","n","t","_">>
n_current_ == <<"c","u","r","r","e","n","t","_">>
n_user_id == <<"u","s","e","r","_","i","d">>
n_related_table == <<"r","e","l","a","t","e","d","_","t","a","b","l","e">>
n_todo_check == <<"T","O","D","O",":"," ","C","h","e","c","k"," ">>
n_relationship == <<" ","r","e","l","a","t","i","o","n","s","h","i","p">>
n_Unhandled == <<"U","n","h","a","n","d","l","e","d",":"," ">>
n_when == <<"w","h","e","n">>
n_else == <<"e","l","s","e">>
n_end == <<"e","n","d">>
n_case == <<"c","a","s","e">>

\* index of the first token from j on that passes the test, or 0
FirstFrom(s, j, Test(_)) ==
    LET hits == {k \in j..Len(s) : Test(s[k])}
    IN IF hits = {} THEN 0 ELSE CHOOSE k \in hits : \A m \in hits : k <= m

\* a comparison operator that holds the character '='
HasEqualsSign(tok) == tok \in {EQ, P("!="), P("<="), P(">=")}

\* splitLogicalOperator: cut at the operator outside parentheses and quotes
\* (operators are never adjacent in a policy)
splitLogicalOperator(s, operator) ==
    LET cuts == SortedSeq({i \in 2..Len(s) - 1 :
                              IsKw(s[i], operator) /\ DepthAfter(s, i - 1) = 0})
        n == Len(cuts)
        pieces == [k \in 1..n + 1 |->
                      SubSeq(s, IF k = 1 THEN 1 ELSE cuts[k - 1] + 1,
                                IF k = n + 1 THEN Len(s) ELSE cuts[k] - 1)]
        parts == SelectSeq(pieces, LAMBDA p : p # <<>>)
    IN IF Len(parts) > 1 THEN parts ELSE <<s>>

\* an entry of functionMappings as analyzeFunctionBody builds it: the field
\* path is held under `returns`; javascript is the property the converter reads
Mapping(type, returns) == [type |-> type, returns |-> returns, javascript |-> NoOperand]
NoMapping == [type |-> "none", returns |-> NoOperand, javascript |-> NoOperand]

\* functionMappings[funcName], undefined as NoMapping
FunctionMappingOf(funcName) ==
    LET t == functionAnalysis.functionMappings
        hits == {i \in 1..Len(t) : t[i].name = funcName}
    IN IF hits = {} THEN NoMapping ELSE t[CHOOSE i \in hits : TRUE].mapping

\* text.replace(/user/g, userVar)
RECURSIVE ReplaceUserText(_, _)
ReplaceUserText(text, userVar) ==
    IF text = <<>> THEN <<>>
    ELSE IF startsWith(text, n_user)
    THEN userVar \o ReplaceUserText(SubSeq(text, 5, Len(text)), userVar)
    ELSE <<text[1]>> \o ReplaceUserText(Tail(text), userVar)

\* the same replacement in the text a path denotes
ReplaceUserPath(op, userVar) ==
    IF op.o = "path"
    THEN PathOp(ReplaceUserText(op.base, userVar),
                [k \in 1..Len(op.steps) |->
                    Step(ReplaceUserText(op.steps[k].name, userVar), op.steps[k].opt)])
    ELSE RawOp(ReplaceUserText(op.v, userVar))

getFunctionMapping(funcName, userVar) ==
    LET mapping == FunctionMappingOf(funcName)
        lower == toLowerCase(funcName)
        g == indexOfStr(lower, n_get_current_)
        c == indexOfStr(lower, n_current_)
        after(i, n) == SubSeq(funcName, i + n, Len(funcName))
    IN IF mapping # NoMapping /\ mapping.javascript # NoOperand
       THEN ReplaceUserPath(mapping.javascript, userVar)
       ELSE IF lower \in {n_get_current_user_role, n_current_user_role}
       THEN UserRolePath(userVar)
       ELSE IF g > 0 /\ after(g, 12) # <<>>
       THEN PathOp(userVar, <<Step(after(g, 12), TRUE)>>)
       ELSE IF c > 0 /\ after(c, 8) # <<>>
       THEN PathOp(userVar, <<Step(after(c, 8), TRUE)>>)
       ELSE CallOp(userVar, funcName)

DigitOf(ch) ==
    CASE ch = "0" -> 0 [] ch = "1" -> 1 [] ch = "2" -> 2 [] ch = "3" -> 3
      [] ch = "4" -> 4 [] ch = "5" -> 5 [] ch = "6" -> 6 [] ch = "7" -> 7
      [] ch = "8" -> 8 [] OTHER -> 9

RECURSIVE IndexValue(_)
IndexValue(digits) ==
    IF digits = <<>> THEN 0
    ELSE 10 * IndexValue(SubSeq(digits, 1, Len(digits) - 1)) + DigitOf(digits[Len(digits)])

\* sessionVariables[setting]: the table is the array of the setting names
\* that were found, so only an array index names an element of it
SessionVariableOf(setting) ==
    LET t == functionAnalysis.sessionVariables
    IN IF IsDigits(setting) /\ (Len(setting) = 1 \/ setting[1] # "0")
          /\ IndexValue(setting) < Len(t)
       THEN t[IndexValue(setting) + 1]
       ELSE <<>>

getSessionMapping(setting, userVar) ==
    IF SessionVariableOf(setting) # <<>>
    THEN RawOp(ReplaceUserText(SessionVariableOf(setting), userVar))
    ELSE IF includes(setting, n_user_id) THEN PathOp(userVar, <<Step(n_id, TRUE)>>)
    ELSE PathOp(userVar, <<Step(LastSegment(setting), TRUE)>>)

\* extractArrayValues: casts and quotes removed, every value quoted again
extractArrayValues(toks) ==
    LET vals == SelectSeq(toks, LAMBDA tk : tk # P(",") /\ tk.t \notin {"c", "ca"})
    IN [k \in 1..Len(vals) |-> vals[k].v]

\* function(...) ... = ANY ( [(] ARRAY [ values ]
AutoFuncAny(s, userVar) ==
    LET eqAfter(i) == FirstFrom(s, FirstAfter(s, i + 1, RP) + 1, HasEqualsSign)
        arr(i) == IF Tok(s, eqAfter(i) + 3) = LP THEN eqAfter(i) + 4 ELSE eqAfter(i) + 3
        close(i) == FirstAfter(s, arr(i) + 1, P("]"))
        hit(i) == /\ IsWord(s[i]) /\ Tok(s, i + 1) = LP
                  /\ FirstAfter(s, i + 1, RP) > 0
                  /\ eqAfter(i) > 0
                  /\ IsKw(Tok(s, eqAfter(i) + 1), n_ANY)
                  /\ Tok(s, eqAfter(i) + 2) = LP
                  /\ IsKw(Tok(s, arr(i)), n_ARRAY)
                  /\ Tok(s, arr(i) + 1) = P("[")
                  /\ close(i) > arr(i) + 2
        rec(i) == JsIncludes(extractArrayValues(SubSeq(s, arr(i) + 2, close(i) - 1)),
                             getFunctionMapping(LastSegment(s[i].v), userVar))
    IN ScanSeq(s, hit, rec)

\* function(...) = 'value'
AutoFuncValue(s, userVar) ==
    LET rp(i) == FirstAfter(s, i + 1, RP)
        hit(i) == /\ IsWord(s[i]) /\ Tok(s, i + 1) = LP /\ rp(i) > 0
                  /\ Tok(s, rp(i) + 1) = EQ
                  /\ Tok(s, rp(i) + 2).t = "q" /\ Len(Tok(s, rp(i) + 2).v) > 0
        rec(i) == JsEq(getFunctionMapping(LastSegment(s[i].v), userVar),
                       StrOp(s[rp(i) + 2].v))
    IN ScanSeq(s, hit, rec)

\* field = function(...)
AutoFieldFunc(s, dataVar, userVar) ==
    LET hit(i) == /\ IsWord(s[i]) /\ Tok(s, i + 1) = EQ
                  /\ IsWord(Tok(s, i + 2))
                  /\ FirstSegment(Tok(s, i + 2).v) = Tok(s, i + 2).v
                  /\ Tok(s, i + 3) = LP
                  /\ FirstAfter(s, i + 3, RP) > 0
        rec(i) == JsEq(DataPath(dataVar, LastSegment(s[i].v)),
                       getFunctionMapping(s[i + 2].v, userVar))
    IN ScanSeq(s, hit, rec)

\* field = ( current_setting ( 'setting'
AutoSetting(s, dataVar, userVar) ==
    LET hit(i) == /\ IsWord(s[i]) /\ Tok(s, i + 1) = EQ /\ Tok(s, i + 2) = LP
                  /\ IsKw(Tok(s, i + 3), n_current_setting)
                  /\ Tok(s, i + 4) = LP
                  /\ Tok(s, i + 5).t = "q" /\ Len(Tok(s, i + 5).v) > 0
        rec(i) == JsEq(DataPath(dataVar, LastSegment(s[i].v)),
                       getSessionMapping(s[i + 5].v, userVar))
    IN ScanSeq(s, hit, rec)

\* sql.includes('EXISTS') and the table after FROM
AutoExists(s) ==
    IF \E i \in 1..Len(s) : includes(s[i].v, n_EXISTS)
    THEN <<JsTrueNote(n_todo_check
                      \o (IF FromTable(s) # <<>> THEN FromTable(s) ELSE n_related_table)
                      \o n_relationship)>>
    ELSE <<>>

\* a predicate without a logical operator at depth 0
AutoAtom(s, dataVar, userVar) ==
    LET found == AutoFuncAny(s, userVar) \o AutoFuncValue(s, userVar)
                 \o AutoFieldFunc(s, dataVar, userVar)
                 \o AutoSetting(s, dataVar, userVar) \o AutoExists(s)
    IN IF found # <<>> THEN found[1]
       ELSE IF Len(s) = 1 /\ IsKw(s[1], n_true) THEN JsTrue
       ELSE IF Len(s) = 1 /\ IsKw(s[1], n_false) THEN JsFalse
       ELSE JsTrueNote(n_Unhandled)

\* the text of a token sequence, as one raw expression
RECURSIVE TextOf(_)
TextOf(toks) ==
    IF toks = <<>> THEN <<>>
    ELSE IF Len(toks) = 1 THEN toks[1].v
    ELSE toks[1].v \o <<" ">> \o TextOf(Tail(toks))

HasText(tok, sub) == includes(toLowerCase(tok.v), sub)
IsBranchEnd(tok) == HasText(tok, n_when) \/ HasText(tok, n_else) \/ HasText(tok, n_end)

\* the parts of CASE expr WHEN ... [ELSE e] END that caseMatch captures,
\* given where the key words stand: c CASE, f the first w, e ELSE or END,
\* q the END after e (key words occur only as whole tokens in a policy)
CaseCapture(s, c, f, e, q) ==
    LET none == [ok |-> FALSE, caseExpr |-> <<>>, whenClauses |-> <<>>,
                 elseClause |-> <<>>]
        some(w, x) == [ok |-> TRUE, caseExpr |-> SubSeq(s, c + 1, f - 1),
                       whenClauses |-> w, elseClause |-> x]
    IN IF c = 0 \/ f <= c + 1 \/ ~startsWith(toLowerCase(s[f].v), n_when) \/ e = 0
       THEN none
       ELSE IF ~IsKw(s[e], n_ELSE) THEN some(SubSeq(s, f, e - 1), <<>>)
       ELSE IF q = 0 THEN none
       ELSE IF q = e + 1 THEN some(SubSeq(s, f, e), <<>>)
       ELSE some(SubSeq(s, f, e - 1), SubSeq(s, e + 1, q - 1))

IsCaseWord(tk) == IsWord(tk) /\ endsWith(toLowerCase(tk.v), n_case)
HasW(tk) == HasText(tk, <<"w">>)
IsElseOrEnd(tk) == IsKw(tk, n_ELSE) \/ HasText(tk, n_end)
HasEnd(tk) == HasText(tk, n_end)

CaseFrom3(s, c, f, e) == CaseCapture(s, c, f, e, FirstFrom(s, e + 1, HasEnd))
CaseFrom2(s, c, f) == CaseFrom3(s, c, f, FirstFrom(s, f + 1, IsElseOrEnd))
CaseFrom1(s, c) == CaseFrom2(s, c, FirstFrom(s, c + 1, HasW))
CaseParts(s) == CaseFrom1(s, FirstFrom(s, 1, IsCaseWord))

\* the branches whenPattern finds: WHEN value [::type] THEN expression
WhenBranches(w) ==
    LET th(i) == IF Tok(w, i + 2).t = "c" THEN i + 3 ELSE i + 2
        stop(i) == FirstFrom(w, th(i) + 1, IsBranchEnd)
        last(i) == IF stop(i) = 0 THEN Len(w) ELSE stop(i) - 1
        hit(i) == /\ IsKw(w[i], n_WHEN)
                  /\ Tok(w, i + 1).t \in {"w", "q"} /\ Len(Tok(w, i + 1).v) > 0
                  /\ IsKw(Tok(w, th(i)), n_THEN)
                  /\ last(i) > th(i)
        rec(i) == [value |-> w[i + 1].v, thenExpr |-> SubSeq(w, th(i) + 1, last(i))]
    IN ScanSeq(w, hit, rec)

RECURSIVE AutoToJavaScript(_, _, _)

\* 'true' gives the test alone, 'false' gives nothing, anything else the
\* test and the converted expression
BranchCondition(b, testExpression, dataVar, userVar) ==
    IF Len(b.thenExpr) = 1 /\ IsKw(b.thenExpr[1], n_true)
    THEN <<JsEq(testExpression, StrOp(b.value))>>
    ELSE IF Len(b.thenExpr) = 1 /\ IsKw(b.thenExpr[1], n_false) THEN <<>>
    ELSE <<JsAnd(<<JsEq(testExpression, StrOp(b.value)),
                   AutoToJavaScript(b.thenExpr, dataVar, userVar)>>)>>

\* a function call in the CASE expression is mapped, anything else kept as is
TestExpression(caseExpr, userVar) ==
    LET calls == {i \in 1..Len(caseExpr) - 1 :
                     IsWord(caseExpr[i]) /\ caseExpr[i + 1] = LP}
        funcMatch == IF calls = {} THEN 0
                     ELSE CHOOSE i \in calls : \A j \in calls : i <= j
    IN IF funcMatch > 0
       THEN getFunctionMapping(LastSegment(caseExpr[funcMatch].v), userVar)
       ELSE RawOp(TextOf(caseExpr))

CaseConditions(m, branches, testExpression, dataVar, userVar) ==
    Flatten([k \in 1..Len(branches) |->
                BranchCondition(branches[k], testExpression, dataVar, userVar)])
    \o (IF m.elseClause # <<>>
           /\ ~(Len(m.elseClause) = 1 /\ IsKw(m.elseClause[1], n_false))
        THEN <<AutoToJavaScript(m.elseClause, dataVar, userVar)>>
        ELSE <<>>)

OrElseFalse(conditions) == IF conditions # <<>> THEN JsOr(conditions) ELSE JsFalse

CaseOf(m, dataVar, userVar) ==
    IF ~m.ok THEN JsFalse
    ELSE OrElseFalse(CaseConditions(m, WhenBranches(m.whenClauses),
                                    TestExpression(m.caseExpr, userVar),
                                    dataVar, userVar))

convertCaseWhen(s, dataVar, userVar) == CaseOf(CaseParts(s), dataVar, userVar)

\* convertToJavaScript of autoRLSConverter
AutoToJavaScript(s, dataVar, userVar) ==
    LET orParts == splitLogicalOperator(s, n_OR)
        andParts == splitLogicalOperator(s, n_AND)
    IN IF s = <<>> THEN JsTrue
       ELSE IF IsWord(s[1]) /\ startsWith(toLowerCase(s[1].v), n_case)
       THEN convertCaseWhen(s, dataVar, userVar)
       ELSE IF Len(orParts) > 1
       THEN JsOr([k \in 1..Len(orParts) |->
                     AutoToJavaScript(orParts[k], dataVar, userVar)])
       ELSE IF Len(andParts) > 1
       THEN JsAnd([k \in 1..Len(andParts) |->
                      AutoToJavaScript(andParts[k], dataVar, userVar)])
       ELSE AutoAtom(s, dataVar, userVar)

-----------------------------------------------------------------------------
(* The automatic converter run on one policy *)

MaxBranches == 2     \* WHEN branches of one CASE

\* CASE disc WHEN v THEN r ... [ELSE e] END; a result is "true", "false" or
\* "owner" for (owner_id = current_user_id()); otherwise may also be "none"
CasePolicy(disc, branches, otherwise) ==
    [form |-> "case", atoms |-> <<>>, ops |-> <<>>, disc |-> disc,
     branches |-> branches, otherwise |-> otherwise]
FlatPolicy(p) ==
    [form |-> "flat", atoms |-> p.atoms, ops |-> p.ops, disc |-> <<>>,
     branches |-> <<>>, otherwise |-> "none"]

Branch(value, result) == [value |-> value, result |-> result]

ResultText(r) ==
    IF r = "true" THEN <<W(n_true)>>
    ELSE IF r = "false" THEN <<W(n_false)>>
    ELSE <<LP, W(n_owner_id), EQ, W(n_current_user_id), LP, RP, RP>>

\* a provider call, or the bare column `role`
DiscText(disc) == IF disc = n_role THEN <<W(disc)>> ELSE <<W(disc), LP, RP>>

CaseText(p) ==
    <<W(n_CASE)>> \o DiscText(p.disc)
    \o Flatten([k \in 1..Len(p.branches) |->
                   <<W(n_WHEN), Q(p.branches[k].value), W(n_THEN)>>
                   \o ResultText(p.branches[k].result)])
    \o (IF p.otherwise = "none" THEN <<>>
        ELSE <<W(n_ELSE)>> \o ResultText(p.otherwise))
    \o <<W(n_END)>>

AutoRender(p) == IF p.form = "case" THEN CaseText(p) ELSE Render(p)

Discriminants == {n_current_user_role, n_role}
BranchSet == {Branch(v, r) : v \in {n_admin, n_guest}, r \in {"true", "false", "owner"}}

CasePolicies ==
    UNION {{CasePolicy(d, bs, e) : d \in Discriminants,
                                   bs \in [1..n -> BranchSet],
                                   e \in {"none", "true", "false", "owner"}} :
           n \in 1..MaxBranches}

AutoPolicies == CasePolicies \cup {FlatPolicy(p) : p \in Policies}

InitAuto ==
    /\ pc = {}
    /\ models = <<>>
    /\ relationships = <<>>
    /\ modelName = <<>>
    /\ policy \in AutoPolicies
    /\ sql = AutoRender(policy)
    /\ analysis = EmptyAnalysis
    /\ prismaFilter = NotBuilt
    /\ jsExpr = NoJs
    /\ fnCode = NoJs
    /\ functionAnalysis = NoAnalysis
    /\ ast = NoAst

\* createConverter().convertToJavaScript(expr, 'data', 'user')
AutoConvertToJavaScript ==
    /\ "javascript" \notin pc
    /\ pc' = pc \cup {"javascript"}
    /\ jsExpr' = AutoToJavaScript(sql, n_data, n_user)
    /\ UNCHANGED <<ast, functionAnalysis, models, relationships, modelName, policy, sql, analysis,
                   prismaFilter, fnCode>>

\* generateFunction([policy], 'using', createConverter(), modelName)
AutoGenerateFunction ==
    /\ "function" \notin pc
    /\ pc' = pc \cup {"function"}
    /\ fnCode' = generateFunction(
                    IF sql = <<>> THEN <<>>
                    ELSE <<AutoToJavaScript(sql, n_data, n_user)>>)
    /\ UNCHANGED <<ast, functionAnalysis, models, relationships, modelName, policy, sql, analysis,
                   prismaFilter, jsExpr>>

NextAuto == AutoConvertToJavaScript \/ AutoGenerateFunction

SpecAuto == InitAuto /\ [][NextAuto]_vars

\* the actors hasAccess sees there: the actor's id is read from user_id
AutoUserOf(id, role) ==
    Obj(<<Prop(n_id, Str(id)), Prop(n_user_id, Str(id)), Prop(n_role, Str(role))>>)
AutoActors ==
    {Undef, Obj(<<>>)} \cup {AutoUserOf(i, r) : i \in {n_u1, n_u2},
                                                 r \in {n_admin, n_guest, n_mod}}

\* the value of a branch result, as the converter compiles that result
ResultValue(r, d, u) ==
    IF r = "none" THEN "false"
    ELSE Outcome(AutoToJavaScript(ResultText(r), n_data, n_user), d, u)

\* first match wins: the result of the first branch whose value is the
\* actor's role, else the ELSE result, else false
RECURSIVE FirstMatch(_, _, _, _)
FirstMatch(p, i, d, u) ==
    IF i > Len(p.branches) THEN ResultValue(p.otherwise, d, u)
    ELSE IF ActorRole(u) = Str(p.branches[i].value)
    THEN ResultValue(p.branches[i].result, d, u)
    ELSE FirstMatch(p, i + 1, d, u)

\* C4: a CASE policy compiles to first-match-wins: for every actor and record
\* the predicate gives the result of the first branch whose value equals the
\* actor's role, and the ELSE result (false without ELSE) when none matches.
C4_CaseFirstMatch ==
    ("javascript" \in pc /\ policy.form = "case")
    => \A d \in StoredRecords, u \in AutoActors :
           Outcome(jsExpr, d, u) = FirstMatch(policy, 1, d, u)

-----------------------------------------------------------------------------
(* relationships.json generated for a schema, then a filter built from it *)

MaxKey == 3      \* members of the junction's composite key

n_classes == <<"c","l","a","s","s","e","s">>
n_rel_teacher_classes == <<"r","e","l","_","t","e","a","c","h","e","r","_","c","l","a","s","s","e","s">>

KeyPool == {n_course_id, n_student_id, n_teacher_id, n_tenant_id}

\* the sequences of n distinct members of S
Arrangements(S, n) ==
    {s \in [1..n -> S] : \A i, j \in 1..n : i # j => s[i] # s[j]}

JunctionKeys == UNION {Arrangements(KeyPool, n) : n \in 2..MaxKey}

RelationOrders ==
    Arrangements({EnrollmentsRelation, StudentsRelation, TeacherRelation}, 3)

\* the junction with its key declared as @@id([...]) (own) or as @id fields
JunctionModel(key, own) ==
    Model(n_CourseStudent,
          [k \in 1..Len(key) |-> Field(key[k], FALSE, ~own)]
          \o <<RelField(n_course, n_rel_course_students, <<n_course_id>>)>>,
          <<Relation(n_course, n_Course, FALSE, n_rel_course_students, <<n_course_id>>)>>,
          IF own THEN key ELSE <<>>)

\* Teacher with its list of junction rows
TeacherWithClasses ==
    Model(n_Teacher,
          <<IdField(n_id), ScalarField(n_name),
            RelField(n_classes, n_rel_teacher_classes, <<>>)>>,
          <<Relation(n_classes, n_CourseStudent, TRUE, n_rel_teacher_classes, <<>>)>>,
          <<>>)

SchemaOf(d) ==
    <<UserModelDef, PostModel, CourseModel(d.relations),
      JunctionModel(d.key, d.own), EnrollmentModel, TeacherWithClasses>>

\* a schema declaration and the one comparison asked of it
FieldLookup(field, provider, relations, key, own) ==
    [atoms |-> <<FieldIsActor(field, provider)>>, ops |-> <<>>,
     relations |-> relations, key |-> key, own |-> own]

FieldLookups ==
    {FieldLookup(c[1], c[2], r, k, o) :
        c \in {<<n_student_id, n_current_student_id>>,
               <<n_teacher_id, n_current_teacher_id>>},
        r \in RelationOrders, k \in JunctionKeys, o \in BOOLEAN}

InitSchema ==
    /\ pc = {}
    /\ policy \in FieldLookups
    /\ models = SchemaOf(policy)
    /\ relationships = <<>>
    /\ modelName \in {n_Course, n_Teacher}
    /\ sql = Render(policy)
    /\ analysis = EmptyAnalysis
    /\ prismaFilter = NotBuilt
    /\ jsExpr = NoJs
    /\ fnCode = NoJs
    /\ functionAnalysis = NoAnalysis
    /\ ast = NoAst

\* generateRelationships(models, outputPath): relationships.json is written,
\* and the models are what the call leaves of them
GenerateRelationships ==
    /\ "relationships" \notin pc
    /\ pc' = pc \cup {"relationships"}
    /\ relationships' = generateRelationships(models).relationships
    /\ models' = generateRelationships(models).models
    /\ UNCHANGED <<ast, functionAnalysis, modelName, policy, sql, analysis, prismaFilter, jsExpr, fnCode>>

\* the converters, once relationships.json is there
FilterFromRelationships == "relationships" \in pc /\ ConvertToPrismaFilter
JavaScriptFromRelationships == "relationships" \in pc /\ ConvertToJavaScript

NextSchema ==
    \/ GenerateRelationships
    \/ FilterFromRelationships
    \/ JavaScriptFromRelationships

SpecSchema == InitSchema /\ [][NextSchema]_vars

\* the entries relationships.json holds under a model for a relation name
EntryOf(rels, model, relation) ==
    SelectSeq(ModelRelations(rels, model), LAMBDA r : r.name = relation)

Without(xs, x) == SelectSeq(xs, LAMBDA y : y # x)

IsPermutationOf(xs, ys) ==
    /\ Len(xs) = Len(ys)
    /\ \A i \in 1..Len(ys) : Cardinality({j \in 1..Len(xs) : xs[j] = ys[i]}) = 1

\* the relations through which a model sees the junction, and its own key member
JunctionViews ==
    {[model |-> n_Course, relation |-> n_students, fk |-> n_course_id],
     [model |-> n_Teacher, relation |-> n_classes, fk |-> n_teacher_id]}

\* C9: for a junction relation seen from model M, `fields` is a permutation of
\* the declared composite key with M's own `<m>_id` first and the other members
\* in their declared relative order, wherever `<m>_id` stands in the key; the
\* declared key (and so the schema) is left as it was, and `field` is the
\* declared key joined by '_'.
C9_KeyReordered ==
    "relationships" \in pc =>
        /\ models = SchemaOf(policy)
        /\ \A v \in JunctionViews :
               SeqHas(policy.key, v.fk) =>
                   LET e == EntryOf(relationships, v.model, v.relation)
                   IN /\ Len(e) = 1
                      /\ e[1].object = n_CourseStudent
                      /\ IsPermutationOf(e[1].fields, policy.key)
                      /\ e[1].fields[1] = v.fk
                      /\ Without(e[1].fields, v.fk) = Without(policy.key, v.fk)
                      /\ e[1].field = JoinUnderscore(policy.key)

\* relationships.json was generated from a three-member key that ends in
\* course_id, and Course's entry lists course_id first
C9_Witness ==
    /\ "relationships" \in pc
    /\ policy.key = <<n_student_id, n_teacher_id, n_course_id>>
    /\ policy.own
    /\ EntryOf(relationships, n_Course, n_students) # <<>>
    /\ EntryOf(relationships, n_Course, n_students)[1].fields
           = <<n_course_id, n_student_id, n_teacher_id>>

\* the field the comparison of the policy is about
AskedField == policy.atoms[1].field

\* junction relations of the model whose key holds the field
JunctionEntries ==
    {r \in {ModelRelations(relationships, modelName)[i] :
                i \in 1..Len(ModelRelations(relationships, modelName))} :
        /\ ModelInfo(models, r.object) # NoModel
        /\ Len(r.fields) >= 2
        /\ SeqHas(r.fields, AskedField)}

\* plain relations of the model whose target declares the field
PlainEntries ==
    {r \in {ModelRelations(relationships, modelName)[i] :
                i \in 1..Len(ModelRelations(relationships, modelName))} :
        /\ ModelInfo(models, r.object) # NoModel
        /\ Len(r.fields) < 2
        /\ FieldInfo(ModelInfo(models, r.object), AskedField) # NoField
        /\ ~FieldInfo(ModelInfo(models, r.object), AskedField).isRelation}

DeclaredDirectly ==
    /\ FieldInfo(ModelInfo(models, modelName), AskedField) # NoField
    /\ ~FieldInfo(ModelInfo(models, modelName), AskedField).isRelation

\* C10: a field absent from the entity, reachable both through a junction
\* relation (key of at least 2 members that holds the field) and through a
\* plain relation whose target declares it, is resolved through the junction
\* relation whatever the order of the relations; a field declared directly on
\* the entity is compared directly, whatever relations there are.
C10_JunctionPreferred ==
    "filter" \in pc =>
        /\ (/\ FieldInfo(ModelInfo(models, modelName), AskedField) = NoField
            /\ JunctionEntries # {}
            /\ PlainEntries # {})
           => /\ prismaFilter.k = "some"
              /\ prismaFilter.field = AskedField
              /\ \E r \in JunctionEntries : prismaFilter.rel = r.name
        /\ DeclaredDirectly
           => /\ prismaFilter.k = "eq"
              /\ prismaFilter.field = AskedField
              /\ prismaFilter.rel = <<>>

\* the plain relation is declared before the junction relation, and the
\* filter goes through the junction relation
C10_Witness ==
    /\ "filter" \in pc
    /\ modelName = n_Course
    /\ AskedField = n_student_id
    /\ policy.relations[1] = EnrollmentsRelation
    /\ JunctionEntries # {}
    /\ PlainEntries # {}
    /\ prismaFilter.k = "some"
    /\ prismaFilter.rel = n_students

-----------------------------------------------------------------------------
(* One plain relation of Course, under several names and both cardinalities *)

n_roster == <<"r","o","s","t","e","r">>
n_enrollment == <<"e","n","r","o","l","l","m","e","n","t">>
n_class == <<"c","l","a","s","s">>
n_staff == <<"s","t","a","f","f">>
n_address == <<"a","d","d","r","e","s","s">>
n_enrollment_id == <<"e","n","r","o","l","l","m","e","n","t","_","i","d">>
n_rel_course_related == <<"r","e","l","_","c","o","u","r","s","e","_","r","e","l","a","t","e","d">>

RelationNames == {n_enrollments, n_enrollment, n_roster, n_class, n_staff, n_address}

\* Course { <name> Enrollment[] } or Course { <name> Enrollment, enrollment_id }
CourseWith(name, isArray) ==
    LET from == IF isArray THEN <<>> ELSE <<n_enrollment_id>>
    IN Model(n_Course,
             <<IdField(n_id), ScalarField(n_name)>>
             \o (IF isArray THEN <<>> ELSE <<ScalarField(n_enrollment_id)>>)
             \o <<RelField(name, n_rel_course_related, from)>>,
             <<Relation(name, n_Enrollment, isArray, n_rel_course_related, from)>>,
             <<>>)

\* the other side: Enrollment holds course_id exactly when Course holds a list
EnrollmentOf(isArray) ==
    LET from == IF isArray THEN <<n_course_id>> ELSE <<>>
    IN Model(n_Enrollment,
             <<IdField(n_id), ScalarField(n_student_id), ScalarField(n_teacher_id)>>
             \o (IF isArray THEN <<ScalarField(n_course_id)>> ELSE <<>>)
             \o <<RelField(n_course, n_rel_course_related, from)>>,
             <<Relation(n_course, n_Course, ~isArray, n_rel_course_related, from)>>,
             <<>>)

RelationSchemaOf(d) ==
    <<UserModelDef, PostModel, CourseWith(d.name, d.isArray), EnrollmentOf(d.isArray)>>

RelationLookup(field, provider, name, isArray) ==
    [atoms |-> <<FieldIsActor(field, provider)>>, ops |-> <<>>,
     name |-> name, isArray |-> isArray]

RelationLookups ==
    {RelationLookup(c[1], c[2], n, a) :
        c \in {<<n_student_id, n_current_student_id>>,
               <<n_teacher_id, n_current_teacher_id>>},
        n \in RelationNames, a \in BOOLEAN}

InitRelation ==
    /\ pc = {}
    /\ policy \in RelationLookups
    /\ models = RelationSchemaOf(policy)
    /\ relationships = <<>>
    /\ modelName \in {n_Course, n_Post}
    /\ sql = Render(policy)
    /\ analysis = EmptyAnalysis
    /\ prismaFilter = NotBuilt
    /\ jsExpr = NoJs
    /\ fnCode = NoJs
    /\ functionAnalysis = NoAnalysis
    /\ ast = NoAst

SpecRelation == InitRelation /\ [][NextSchema]_vars

\* C11: a field resolved through a plain one-hop relation compiles to a `some`
\* filter exactly when the relation is to-many and to a nested equality
\* exactly when it is to-one, whatever the name of the relation.
C11_CardinalityDecides ==
    ("filter" \in pc /\ modelName = n_Course)
    => /\ prismaFilter.rel = policy.name
       /\ prismaFilter.field = AskedField
       /\ prismaFilter.k = IF policy.isArray THEN "some" ELSE "is"

-----------------------------------------------------------------------------
(* rlsConverter: the converter with its own table of provider names *)

n_get_current_agency_id == <<"g","e","t","_","c","u","r","r","e","n","t","_","a","g","e","n","c","y","_","i","d">>
n_get_current_school_id == <<"g","e","t","_","c","u","r","r","e","n","t","_","s","c","h","o","o","l","_","i","d">>
n_agency_id == <<"a","g","e","n","c","y","_","i","d">>
n_school_id == <<"s","c","h","o","o","l","_","i","d">>
n_get_current_region_id == <<"g","e","t","_","c","u","r","r","e","n","t","_","r","e","g","i","o","n","_","i","d">>
n_current_region == <<"c","u","r","r","e","n","t","_","r","e","g","i","o","n">>
n_tenant_scope == <<"t","e","n","a","n","t","_","s","c","o","p","e">>
n_account_id == <<"a","c","c","o","u","n","t","_","i","d">>
n_app_dot_current_region == <<"a","p","p",".","c","u","r","r","e","n","t","_","r","e","g","i","o","n">>
n_org_dot_current_region == <<"o","r","g",".","c","u","r","r","e","n","t","_","r","e","g","i","o","n">>
n_app_dot_current_ == <<"a","p","p",".","c","u","r","r","e","n","t","_">>
n_app_dot_current_user_id == <<"a","p","p",".","c","u","r","r","e","n","t","_","u","s","e","r","_","i","d">>

WordChars == {Upper[i] : i \in 1..26} \cup {Lower[i] : i \in 1..26} \cup Digits \cup {"_"}

\* (\w+) at the start of a text: its longest run of word characters
WordRun(text) ==
    LET stops == {i \in 1..Len(text) : text[i] \notin WordChars}
    IN IF stops = {} THEN text
       ELSE SubSeq(text, 1, (CHOOSE i \in stops : \A j \in stops : i <= j) - 1)

\* the text after the first occurrence of a prefix, any case; empty when absent
AfterFirst(text, prefix) ==
    LET i == indexOfStr(toLowerCase(text), prefix)
    IN IF i = 0 THEN <<>> ELSE SubSeq(text, i + Len(prefix), Len(text))

\* the table of mapFunctionToUserProperty
DynamicMappings ==
    (n_get_current_user_role :> n_role) @@ (n_get_current_user_id :> n_id) @@
    (n_current_user_id :> n_id) @@ (n_get_current_teacher_id :> n_teacher_id) @@
    (n_get_current_student_id :> n_student_id) @@
    (n_get_current_agency_id :> n_agency_id) @@
    (n_get_current_school_id :> n_school_id)

mapFunctionToUserProperty(funcName) ==
    LET getRun == WordRun(AfterFirst(funcName, n_get_current_))
        \* (\w+)_id, greedy: up to the last _id that has a character before it
        ids == {j \in 2..Len(getRun) - 2 : MatchAt(toLowerCase(getRun), n__id, j)}
        lastId == CHOOSE j \in ids : \A k \in ids : k <= j
        currentRun == WordRun(AfterFirst(funcName, n_current_))
    IN IF Lookup(DynamicMappings, funcName) # <<>>
       THEN Lookup(DynamicMappings, funcName)
       ELSE IF ids # {} THEN SubSeq(getRun, 1, lastId - 1) \o n__id
       ELSE IF getRun # <<>> THEN getRun
       ELSE IF currentRun # <<>> THEN currentRun
       ELSE funcName

\* the settings here hold word characters and dots only
mapSettingToUserProperty(setting) ==
    IF setting = n_app_dot_current_user_id THEN n_id
    ELSE IF WordRun(AfterFirst(setting, n_app_dot_current_)) # <<>>
    THEN WordRun(AfterFirst(setting, n_app_dot_current_))
    ELSE ReplaceDots(setting)

\* convertToJavaScript of rlsConverter on one comparison with a provider:
\* field = function(...) or field = (current_setting('key' ...
DynamicComparison(s, dataVar, userVar) ==
    LET funcHit(i) == /\ IsWord(s[i]) /\ Tok(s, i + 1) = EQ
                      /\ IsWord(Tok(s, i + 2)) /\ Tok(s, i + 3) = LP
                      /\ FirstSegment(s[i + 2].v) = s[i + 2].v
                      /\ FirstAfter(s, i + 3, RP) > 0
        funcRec(i) == JsEq(DataPath(dataVar, LastSegment(s[i].v)),
                           PathOp(userVar,
                               <<Step(mapFunctionToUserProperty(s[i + 2].v), TRUE)>>))
        setHit(i) == /\ IsWord(s[i]) /\ Tok(s, i + 1) = EQ /\ Tok(s, i + 2) = LP
                     /\ IsKw(Tok(s, i + 3), n_current_setting)
                     /\ Tok(s, i + 4) = LP
                     /\ Tok(s, i + 5).t = "q" /\ Len(Tok(s, i + 5).v) > 0
        setRec(i) == JsEq(DataPath(dataVar, LastSegment(s[i].v)),
                          PathOp(userVar,
                              <<Step(mapSettingToUserProperty(s[i + 5].v), TRUE)>>))
        found == ScanSeq(s, funcHit, funcRec) \o ScanSeq(s, setHit, setRec)
    IN IF s = <<>> THEN JsTrue
       ELSE IF found # <<>> THEN found[1]
       ELSE JsTrueNote(n_Unhandled)

-----------------------------------------------------------------------------
(* The converters run on one comparison with a provider, with and without an
   entry for the provider in the tables analyzeFunctions discovered *)

\* field = name()
FunctionPolicy(field, name, converter) ==
    [kind |-> "function", field |-> field, name |-> name, converter |-> converter]

\* field = (current_setting('name'))
SessionPolicy(field, name, converter) ==
    [kind |-> "session", field |-> field, name |-> name, converter |-> converter]

MappingText(p) ==
    IF p.kind = "function"
    THEN <<W(p.field), EQ, W(p.name), LP, RP>>
    ELSE <<W(p.field), EQ, LP, W(n_current_setting), LP, Q(p.name), RP, RP>>

Converters == {"enhanced", "auto", "dynamic"}
MappingFields == {n_owner_id, n_status}
FunctionNames == {n_current_user_id, n_get_current_region_id, n_current_region, n_tenant_scope}
SettingNames == {n_app_dot_current_user_id, n_app_dot_current_region, n_org_dot_current_region}

MappingPolicies ==
    {FunctionPolicy(f, n, c) : f \in MappingFields, n \in FunctionNames, c \in Converters}
    \cup {SessionPolicy(f, n, c) : f \in MappingFields, n \in SettingNames, c \in Converters}

\* user?.account_id
DiscoveredPath == PathOp(n_user, <<Step(n_account_id, TRUE)>>)

\* what analyzeFunctions returns when the database declares the provider: a
\* function whose body selects account.id, or the name of the setting read
DiscoveredFor(p) ==
    IF p.kind = "function"
    THEN [functionMappings |-> <<[name |-> p.name, mapping |-> Mapping("lookup", DiscoveredPath)]>>,
          sessionVariables |-> <<>>]
    ELSE [functionMappings |-> <<>>, sessionVariables |-> <<p.name>>]

InitMapping ==
    /\ pc = {}
    /\ models = SchemaModels
    /\ relationships = generateRelationships(SchemaModels).relationships
    /\ modelName = n_Post
    /\ policy \in MappingPolicies
    /\ functionAnalysis \in {NoAnalysis, DiscoveredFor(policy)}
    /\ sql = MappingText(policy)
    /\ analysis = EmptyAnalysis
    /\ prismaFilter = NotBuilt
    /\ jsExpr = NoJs
    /\ fnCode = NoJs
    /\ ast = NoAst

\* createEnhancedConverter(functionMappings, sessionVariables, models, relationships)
EnhancedFilter == policy.converter = "enhanced" /\ ConvertToPrismaFilter

EnhancedJavaScript == policy.converter = "enhanced" /\ ConvertToJavaScript

\* createConverter(functionMappings, sessionVariables).convertToJavaScript
AutoJavaScript == policy.converter = "auto" /\ AutoConvertToJavaScript

\* rlsConverter.convertToJavaScript(expr, 'data', 'user')
DynamicJavaScript ==
    /\ policy.converter = "dynamic"
    /\ "javascript" \notin pc
    /\ pc' = pc \cup {"javascript"}
    /\ jsExpr' = DynamicComparison(sql, n_data, n_user)
    /\ UNCHANGED <<ast, functionAnalysis, models, relationships, modelName, policy, sql, analysis,
                   prismaFilter, fnCode>>

NextMapping == EnhancedFilter \/ EnhancedJavaScript \/ AutoJavaScript \/ DynamicJavaScript

SpecMapping == InitMapping /\ [][NextMapping]_vars

Discovered == functionAnalysis # NoAnalysis

\* user?.<name>
ActorField(name) == PathOp(n_user, <<Step(name, TRUE)>>)

\* C12: when analyzeFunctions discovered a mapping for the provider function,
\* the compiled predicate and the compiled filter compare the field with the
\* discovered field path, whatever the built-in table holds for that name
C12_DiscoveredFirst ==
    (policy.kind = "function" /\ Discovered /\ policy.converter \in {"enhanced", "auto"})
    => /\ "javascript" \in pc
          => jsExpr = JsEq(DataPath(n_data, policy.field), DiscoveredPath)
       /\ "filter" \in pc
          => /\ prismaFilter.k = "eq"
             /\ prismaFilter.field = policy.field
             /\ prismaFilter.op = DiscoveredPath

\* the provider names that only a pattern can resolve
PatternNames == {n_get_current_region_id, n_current_region,
                 n_app_dot_current_region, n_org_dot_current_region}

\* C13: a provider name without a table entry is resolved by its pattern:
\* get_current_<X>_id gives <X>_id, current_<X> gives <X>, and a session key
\* <namespace>.current_<X> gives <X> whatever the namespace is
C13_PatternInference ==
    ("javascript" \in pc /\ ~Discovered /\ policy.converter \in {"auto", "dynamic"}
        /\ policy.name \in PatternNames)
    => jsExpr = JsEq(DataPath(n_data, policy.field),
                     ActorField(AfterFirst(policy.name, n_current_)))

\* C14: a provider function that no table and no pattern knows resolves to
\* its own name as a field of the actor, and its comparison is kept in the
\* compiled predicate and in the compiled filter
C14_UnknownKeepsName ==
    (~Discovered /\ policy.converter \in {"enhanced", "auto"}
        /\ policy.name = n_tenant_scope)
    => /\ "javascript" \in pc
          => jsExpr = JsEq(DataPath(n_data, policy.field), ActorField(policy.name))
       /\ "filter" \in pc
          => /\ prismaFilter.k = "eq"
             /\ prismaFilter.field = policy.field
             /\ prismaFilter.op = ActorField(policy.name)

-----------------------------------------------------------------------------
(* sqlToJsConverter: the parser of a predicate text into a tree, reading the
   text character by character, and the two printers of the tree *)

n_null == <<"n","u","l","l">>
n_current_user == <<"c","u","r","r","e","n","t","_","u","s","e","r">>
n_session_user == <<"s","e","s","s","i","o","n","_","u","s","e","r">>
n_auth == <<"a","u","t","h">>
n_LIKE == <<"L","I","K","E">>
n_ILIKE == <<"I","L","I","K","E">>
n_TRUE == <<"T","R","U","E">>
n_FALSE == <<"F","A","L","S","E">>
n_NOT_sp == <<"N","O","T"," ">>
n_paren_SELECT == <<"(","S","E","L","E","C","T">>
n_empty_list == <<"[","]">>

\* a predicate text as the caller hands it over: null, or a string
NullText == [isNull |-> TRUE, chars |-> <<>>]
Text(chars) == [isNull |-> FALSE, chars |-> chars]

Whitespace == {" ", "\t", "\n", "\r"}

RECURSIVE trimStart(_)
trimStart(s) ==
    IF s # <<>> /\ Head(s) \in Whitespace THEN trimStart(Tail(s)) ELSE s

RECURSIVE trimEnd(_)
trimEnd(s) ==
    IF s # <<>> /\ s[Len(s)] \in Whitespace
    THEN trimEnd(SubSeq(s, 1, Len(s) - 1))
    ELSE s

trim(s) == trimEnd(trimStart(s))

\* the character at an index, none beyond the text
Ch(s, i) == IF i >= 1 /\ i <= Len(s) THEN s[i] ELSE ""

\* the index after the run of whitespace that starts at i
RECURSIVE SkipSpace(_, _)
SkipSpace(s, i) == IF Ch(s, i) \in Whitespace THEN SkipSpace(s, i + 1) ELSE i

\* a literal at an index, in any case
MatchWord(s, lit, i) == MatchAt(toLowerCase(s), toLowerCase(lit), i)

\* str.split(sep) for a separator of one character
RECURSIVE SplitChar(_, _)
SplitChar(s, sep) ==
    LET hits == {i \in 1..Len(s) : s[i] = sep}
        first == CHOOSE i \in hits : \A j \in hits : i <= j
    IN IF hits = {} THEN <<s>>
       ELSE <<SubSeq(s, 1, first - 1)>> \o SplitChar(SubSeq(s, first + 1, Len(s)), sep)

\* ^\s+operator\s+ at index i: the index after the match, 0 without a match
OperatorEnd(str, operator, i) ==
    LET j == SkipSpace(str, i)
        k == SkipSpace(str, j + Len(operator))
    IN IF j > i /\ MatchWord(str, operator, j) /\ k > j + Len(operator) THEN k ELSE 0

\* the depth of parentheses the scan has reached before index i
DepthBefore(str, i) ==
    Cardinality({k \in 1..i - 1 : str[k] = "("})
    - Cardinality({k \in 1..i - 1 : str[k] = ")"})

\* the scan from index `from` on: the text up to the next operator at depth 0
\* is a part, and the scan goes on after the operator
RECURSIVE SplitFrom(_, _, _, _)
SplitFrom(str, operator, from, parts) ==
    LET hits == {i \in from..Len(str) :
                    /\ str[i] \notin {"(", ")"}
                    /\ DepthBefore(str, i) = 0
                    /\ OperatorEnd(str, operator, i) > 0}
        first == CHOOSE i \in hits : \A j \in hits : i <= j
        rest == trim(SubSeq(str, from, Len(str)))
    IN IF hits = {}
       THEN IF rest # <<>> THEN Append(parts, rest) ELSE parts
       ELSE SplitFrom(str, operator, OperatorEnd(str, operator, first),
                      Append(parts, trim(SubSeq(str, from, first - 1))))

splitByOperator(str, operator) ==
    LET parts == SplitFrom(str, operator, 1, <<>>)
    IN IF Len(parts) > 0 THEN parts ELSE <<str>>

countParentheses(str) ==
    Cardinality({i \in 1..Len(str) : str[i] = "("})
    - Cardinality({i \in 1..Len(str) : str[i] = ")"})

isAlphanumeric(char) == char \in WordChars

\* the indices the scan reads inside quotes, the quotes included, from an
\* index outside quotes on: a quote is closed by the next quote of its kind
RECURSIVE QuotedFrom(_, _)
QuotedFrom(str, from) ==
    LET opens == {i \in from..Len(str) : str[i] \in {"'", "\""}}
        open == CHOOSE i \in opens : \A j \in opens : i <= j
        closes == {i \in open + 1..Len(str) : str[i] = str[open]}
        close == CHOOSE i \in closes : \A j \in closes : i <= j
    IN IF opens = {} THEN {}
       ELSE IF closes = {} THEN open..Len(str)
       ELSE (open..close) \cup QuotedFrom(str, close + 1)

\* the index of the operator outside parentheses and quotes, 0 for -1
findOperatorIndex(str, operator) ==
    LET quoted == QuotedFrom(str, 1)
        depth(i) == Cardinality({k \in 1..i - 1 : k \notin quoted /\ str[k] = "("})
                    - Cardinality({k \in 1..i - 1 : k \notin quoted /\ str[k] = ")"})
        hits == {i \in 1..Len(str) :
                    /\ i \notin quoted
                    /\ str[i] \notin {"(", ")"}
                    /\ depth(i) = 0
                    /\ MatchWord(str, operator, i)
                    /\ (operator[1] = " " \/ i = 1 \/ ~isAlphanumeric(str[i - 1]))}
    IN IF hits = {} THEN 0 ELSE CHOOSE i \in hits : \A j \in hits : i <= j

\* /^-?\d+(\.\d+)?$/
IsNumberText(v) ==
    LET body == IF Ch(v, 1) = "-" THEN Tail(v) ELSE v
        parts == SplitChar(body, ".")
    IN /\ Len(parts) \in {1, 2}
       /\ \A k \in 1..Len(parts) : IsDigits(parts[k])

RECURSIVE StripLeadingZeros(_)
StripLeadingZeros(d) ==
    IF Len(d) > 1 /\ d[1] = "0" THEN StripLeadingZeros(Tail(d)) ELSE d

RECURSIVE StripTrailingZeros(_)
StripTrailingZeros(d) ==
    IF d # <<>> /\ d[Len(d)] = "0"
    THEN StripTrailingZeros(SubSeq(d, 1, Len(d) - 1))
    ELSE d

\* parseFloat(v).toString() for a number text of a few digits
NumberText(v) ==
    LET body == IF Ch(v, 1) = "-" THEN Tail(v) ELSE v
        parts == SplitChar(body, ".")
        whole == StripLeadingZeros(parts[1])
        frac == IF Len(parts) = 2 THEN StripTrailingZeros(parts[2]) ELSE <<>>
        digits == IF frac = <<>> THEN whole ELSE whole \o <<".">> \o frac
    IN IF Ch(v, 1) = "-" /\ digits # <<"0">> THEN <<"-">> \o digits ELSE digits

\* ^(.+)::[\w_]+$ : the index of the cast's first colon, 0 without a cast
CastIndex(v) ==
    LET hits == {i \in 2..Len(v) - 2 :
                    /\ v[i] = ":" /\ v[i + 1] = ":"
                    /\ \A k \in i + 2..Len(v) : v[k] \in WordChars
                    /\ \A k \in 1..i - 1 : v[k] # "\n"}
    IN IF hits = {} THEN 0 ELSE CHOOSE i \in hits : \A j \in hits : j <= i

IsQuoted(v) ==
    \/ Ch(v, 1) = "'" /\ Ch(v, Len(v)) = "'"
    \/ Ch(v, 1) = "\"" /\ Ch(v, Len(v)) = "\""

\* ^(\w+)\((.*)\)$
IsCallText(v) ==
    /\ WordRun(v) # <<>>
    /\ Ch(v, Len(WordRun(v)) + 1) = "("
    /\ Len(v) >= Len(WordRun(v)) + 2
    /\ v[Len(v)] = ")"
    /\ \A k \in Len(WordRun(v)) + 2..Len(v) - 1 : v[k] # "\n"

RECURSIVE parseValue(_)
parseValue(text) ==
    LET trimmed == trim(text)
        value == IF CastIndex(trimmed) > 0
                 THEN trim(SubSeq(trimmed, 1, CastIndex(trimmed) - 1))
                 ELSE trimmed
        name == WordRun(value)
        args == SubSeq(value, Len(name) + 2, Len(value) - 1)
        items == SplitChar(SubSeq(value, 2, Len(value) - 1), ",")
        parts == SplitChar(value, ".")
    IN IF toLowerCase(value) = n_null THEN Leaf("NULL", <<>>)
       ELSE IF toLowerCase(value) = n_true THEN Leaf("BOOLEAN", n_true)
       ELSE IF toLowerCase(value) = n_false THEN Leaf("BOOLEAN", n_false)
       ELSE IF IsQuoted(value)
       THEN Leaf("STRING", IF Len(value) = 1 THEN value
                           ELSE SubSeq(value, 2, Len(value) - 1))
       ELSE IF IsNumberText(value) THEN Leaf("NUMBER", NumberText(value))
       ELSE IF Ch(value, 1) = "(" /\ Ch(value, Len(value)) = ")"
       THEN Ast("ARRAY", <<>>, <<>>, <<>>,
                [k \in 1..Len(items) |-> parseValue(trim(items[k]))])
       ELSE IF IsCallText(value)
       THEN Ast("FUNCTION", <<>>, name, <<>>,
                IF args = <<>> THEN <<>>
                ELSE [k \in 1..Len(SplitChar(args, ",")) |->
                        parseValue(trim(SplitChar(args, ",")[k]))])
       ELSE IF value # <<>> /\ \A k \in 1..Len(value) : value[k] \in WordChars \cup {"."}
       THEN IF Len(parts) = 2
            THEN Ast("COLUMN", <<>>, parts[2], parts[1], <<>>)
            ELSE Leaf("COLUMN", value)
       ELSE Leaf("RAW", value)

comparisonOps ==
    << <<"<","=">>, <<">","=">>, <<"<",">">>, <<"!","=">>, <<"=">>, <<"<">>, <<">">>,
       <<" ">> \o n_IN \o <<" ">>,
       <<" ">> \o n_NOT \o <<" ">> \o n_IN \o <<" ">>,
       <<" ">> \o n_LIKE \o <<" ">>,
       <<" ">> \o n_ILIKE \o <<" ">>,
       <<" ">> \o n_IS \o <<" ">> \o n_NULL,
       <<" ">> \o n_IS \o <<" ">> \o n_NOT \o <<" ">> \o n_NULL >>

\* \s*=\s*ANY\s*\(\s*ARRAY\s*\[([^\]]+)\]\s*\) at index i: the indices of
\* the brackets when it matches
AnyArrayAt(str, i) ==
    LET a == SkipSpace(str, i)
        b == SkipSpace(str, a + 1)
        c == SkipSpace(str, b + 3)
        d == SkipSpace(str, c + 1)
        e == SkipSpace(str, d + 5)
        closes == {k \in e + 1..Len(str) : str[k] = "]"}
        f == IF closes = {} THEN 0 ELSE CHOOSE k \in closes : \A j \in closes : k <= j
        g == SkipSpace(str, f + 1)
    IN [open |-> e, close |-> f,
        ok |-> /\ Ch(str, a) = "=" /\ MatchWord(str, n_ANY, b)
               /\ Ch(str, c) = "(" /\ MatchWord(str, n_ARRAY, d)
               /\ Ch(str, e) = "[" /\ f > e + 1 /\ Ch(str, g) = ")"]

\* ^(.+?)\s*=\s*ANY ... : the length of the shortest left part, 0 without a match
AnyArrayLeft(str) ==
    LET hits == {n \in 1..Len(str) :
                    /\ AnyArrayAt(str, n + 1).ok
                    /\ \A k \in 1..n : str[k] # "\n"}
    IN IF hits = {} THEN 0 ELSE CHOOSE n \in hits : \A m \in hits : n <= m

\* ^(.+?)\s+IN\s+\(SELECT : the length of the shortest left part
InSelectLeft(str) ==
    LET at(n) == LET j == SkipSpace(str, n + 1)
                     k == SkipSpace(str, j + 2)
                 IN /\ j > n + 1 /\ MatchWord(str, n_IN, j)
                    /\ k > j + 2 /\ MatchWord(str, n_paren_SELECT, k)
        hits == {n \in 1..Len(str) : at(n) /\ \A k \in 1..n : str[k] # "\n"}
    IN IF hits = {} THEN 0 ELSE CHOOSE n \in hits : \A m \in hits : n <= m

\* the first operator of comparisonOps the text holds, 0 when it holds none
FirstOperator(str) ==
    LET hits == {k \in 1..Len(comparisonOps) : findOperatorIndex(str, comparisonOps[k]) > 0}
    IN IF hits = {} THEN 0 ELSE CHOOSE k \in hits : \A j \in hits : k <= j

RECURSIVE parseLogicalExpression(_)
RECURSIVE parseComparisonExpression(_)

parseLogicalExpression(str) ==
    LET orParts == splitByOperator(str, n_OR)
        andParts == splitByOperator(str, n_AND)
    IN IF Len(orParts) > 1
       THEN Ast("OR", <<>>, <<>>, <<>>,
                [k \in 1..Len(orParts) |-> parseLogicalExpression(orParts[k])])
       ELSE IF Len(andParts) > 1
       THEN Ast("AND", <<>>, <<>>, <<>>,
                [k \in 1..Len(andParts) |-> parseLogicalExpression(andParts[k])])
       ELSE parseComparisonExpression(str)

parseComparisonExpression(text) ==
    LET str == trim(text)
        inner == SubSeq(str, 2, Len(str) - 1)
        anyLeft == AnyArrayLeft(str)
        any == AnyArrayAt(str, anyLeft + 1)
        arrayItems == SplitChar(SubSeq(str, any.open + 1, any.close - 1), ",")
        op == comparisonOps[FirstOperator(str)]
        index == findOperatorIndex(str, op)
    IN IF Ch(str, 1) = "(" /\ Ch(str, Len(str)) = ")" /\ countParentheses(inner) = 0
       THEN parseLogicalExpression(inner)
       ELSE IF MatchWord(str, n_NOT_sp, 1)
       THEN Ast("NOT", <<>>, <<>>, <<>>,
                <<parseLogicalExpression(trim(SubSeq(str, 5, Len(str))))>>)
       ELSE IF anyLeft > 0
       THEN Comparison(n_IN, parseValue(trim(SubSeq(str, 1, anyLeft))),
                Ast("ARRAY", <<>>, <<>>, <<>>,
                    [k \in 1..Len(arrayItems) |-> parseValue(trim(arrayItems[k]))]))
       ELSE IF InSelectLeft(str) > 0
       THEN Comparison(n_IN, parseValue(trim(SubSeq(str, 1, InSelectLeft(str)))),
                       Leaf("SUBQUERY", <<>>))
       ELSE IF FirstOperator(str) > 0
       THEN Comparison(trim(op),
                parseValue(trim(SubSeq(str, 1, index - 1))),
                IF includes(trim(op), n_IS) THEN NoAst
                ELSE parseValue(trim(SubSeq(str, index + Len(op), Len(str)))))
       ELSE parseValue(str)

\* a variant that reads a text without a predicate as FALSE
parseSqlExpressionDenyBlank(raw) ==
    IF raw.isNull \/ trim(raw.chars) = <<>> THEN Leaf("BOOLEAN", n_false)
    ELSE parseLogicalExpression(trim(raw.chars))

\* raw is the text the caller hands over
parseSqlExpression(raw) ==
    IF raw.isNull \/ raw.chars = <<>> THEN NoAst
    ELSE parseLogicalExpression(trim(raw.chars))

UpperChar(c) ==
    IF \E i \in 1..26 : Lower[i] = c
    THEN Upper[CHOOSE i \in 1..26 : Lower[i] = c]
    ELSE c

toUpperCase(s) == [i \in 1..Len(s) |-> UpperChar(s[i])]

\* [items] as an operand
ArrOp(items) == [o |-> "array", base |-> <<>>, steps |-> items, v |-> <<>>]

\* value.replace(/'/g, "\\'")
EscapeQuotes(v) ==
    Flatten([k \in 1..Len(v) |-> IF v[k] = "'" THEN <<"\\", "'">> ELSE <<v[k]>>])

RegexSpecial == {".", "*", "+", "?", "^", "$", "{", "}", "(", ")", "|", "[", "]", "\\"}

\* special characters escaped, then % becomes .* and _ becomes .
sqlLikeToRegex(pattern) ==
    LET escaped == Flatten([k \in 1..Len(pattern) |->
                        IF pattern[k] \in RegexSpecial THEN <<"\\", pattern[k]>>
                        ELSE <<pattern[k]>>])
        wild == Flatten([k \in 1..Len(escaped) |->
                        IF escaped[k] = "%" THEN <<".", "*">> ELSE <<escaped[k]>>])
    IN [k \in 1..Len(wild) |-> IF wild[k] = "_" THEN "." ELSE wild[k]]

IsSpecialColumn(column) ==
    toLowerCase(column) \in {n_current_user, n_session_user, n_user}

convertFunctionToJS(node, userVar) ==
    LET funcName == toLowerCase(node.value)
    IN IF funcName \in {n_current_user, n_session_user, n_current_user_id,
                        n_current_setting, n_auth}
       THEN PathOp(userVar, <<Step(n_id, TRUE)>>)
       ELSE IF funcName = n_current_user_role THEN UserRolePath(userVar)
       ELSE RawOp(n_null)

RECURSIVE valueToJS(_, _, _)
valueToJS(node, dataVar, userVar) ==
    CASE node.type = "COLUMN" ->
            IF IsSpecialColumn(node.value) THEN PathOp(userVar, <<Step(n_id, TRUE)>>)
            ELSE DataPath(dataVar, node.value)
      [] node.type = "STRING" -> StrOp(EscapeQuotes(node.value))
      [] node.type \in {"NUMBER", "BOOLEAN"} -> RawOp(node.value)
      [] node.type = "FUNCTION" -> convertFunctionToJS(node, userVar)
      [] node.type = "ARRAY" ->
            ArrOp([k \in 1..Len(node.kids) |-> valueToJS(node.kids[k], dataVar, userVar)])
      [] node.type = "SUBQUERY" -> RawOp(n_empty_list)
      [] OTHER -> RawOp(n_null)

\* an expression of the generated code that this converter alone produces
JsOf(k, l, r, list, note) == JsNode(k, l, r, list, <<>>, note)
JsNot(arg) == JsNode("not", NoOperand, NoOperand, <<>>, <<arg>>, <<>>)
\* the evaluation of the converter ends in a TypeError
JsThrown == JsNode("throw", NoOperand, NoOperand, <<>>, <<>>, <<>>)

convertComparisonToJS(node, dataVar, userVar) ==
    LET left == valueToJS(node.kids[1], dataVar, userVar)
        right == valueToJS(node.kids[2], dataVar, userVar)
        operator == toUpperCase(node.operator)
        items == right.steps
        symbol(k) == JsOf(k, left, right, <<>>, <<>>)
    IN CASE operator = <<"=">> -> JsEq(left, right)
         [] operator \in {<<"!","=">>, <<"<",">">>} -> symbol("neq")
         [] operator = <<"<">> -> symbol("lt")
         [] operator = <<">">> -> symbol("gt")
         [] operator = <<"<","=">> -> symbol("lte")
         [] operator = <<">","=">> -> symbol("gte")
         [] operator = n_IN ->
                IF node.kids[2].type = "ARRAY" THEN JsIncludes(items, left)
                ELSE symbol("in_value")
         [] operator = n_NOT \o <<" ">> \o n_IN ->
                IF node.kids[2].type = "ARRAY" THEN JsOf("not_includes", NoOperand, left, items, <<>>)
                ELSE symbol("not_in_value")
         [] operator = n_IS \o <<" ">> \o n_NULL -> JsOf("is_null", left, NoOperand, <<>>, <<>>)
         [] operator = n_IS \o <<" ">> \o n_NOT \o <<" ">> \o n_NULL ->
                JsOf("is_not_null", left, NoOperand, <<>>, <<>>)
         [] operator \in {n_LIKE, n_ILIKE} ->
                IF node.kids[2].type \in {"STRING", "RAW"}
                THEN JsOf(IF node.operator = n_ILIKE THEN "match_i" ELSE "match",
                          left, NoOperand, <<>>, sqlLikeToRegex(node.kids[2].value))
                ELSE JsThrown
         [] OTHER -> JsTrue

RECURSIVE astToJavaScript(_, _, _)
astToJavaScript(node, dataVar, userVar) ==
    CASE node.type = "OR" ->
            JsOr([k \in 1..Len(node.kids) |-> astToJavaScript(node.kids[k], dataVar, userVar)])
      [] node.type = "AND" ->
            JsAnd([k \in 1..Len(node.kids) |-> astToJavaScript(node.kids[k], dataVar, userVar)])
      [] node.type = "NOT" -> JsNot(astToJavaScript(node.kids[1], dataVar, userVar))
      [] node.type = "COMPARISON" -> convertComparisonToJS(node, dataVar, userVar)
      [] node.type = "COLUMN" ->
            JsOf("value", valueToJS(node, dataVar, userVar), NoOperand, <<>>, <<>>)
      [] node.type = "BOOLEAN" -> IF node.value = n_true THEN JsTrue ELSE JsFalse
      [] OTHER -> JsTrue

valueToPrisma(node, userVar) ==
    CASE node.type = "COLUMN" ->
            IF IsSpecialColumn(node.value) THEN PathOp(userVar, <<Step(n_id, TRUE)>>)
            ELSE PathOp(userVar, <<Step(node.value, TRUE)>>)
      [] node.type = "STRING" -> StrOp(EscapeQuotes(node.value))
      [] node.type \in {"NUMBER", "BOOLEAN"} -> RawOp(node.value)
      [] node.type = "FUNCTION" ->
            IF toLowerCase(node.value) = n_current_user_role THEN UserRolePath(userVar)
            ELSE PathOp(userVar, <<Step(n_id, TRUE)>>)
      [] node.type = "SUBQUERY" -> RawOp(n_empty_list)
      [] OTHER -> RawOp(n_null)

convertComparisonToPrisma(node, userVar) ==
    LET column == node.kids[1].value
        rightValue == valueToPrisma(node.kids[2], userVar)
        operator == toUpperCase(node.operator)
        items == [k \in 1..Len(node.kids[2].kids) |-> valueToPrisma(node.kids[2].kids[k], userVar)]
        keyed(k) == FNode(k, column, rightValue, <<>>, <<>>, <<>>, NoJs)
        listed(k) == FNode(k, column, NoOperand, <<>>, items, <<>>, NoJs)
    IN IF node.kids[1].type # "COLUMN" THEN FPass
       ELSE CASE operator = <<"=">> -> FEq(column, rightValue)
              [] operator \in {<<"!","=">>, <<"<",">">>} -> FNot(column, rightValue)
              [] operator = <<"<">> -> keyed("lt")
              [] operator = <<">">> -> keyed("gt")
              [] operator = <<"<","=">> -> keyed("lte")
              [] operator = <<">","=">> -> keyed("gte")
              [] operator = n_IN ->
                    IF node.kids[2].type = "ARRAY" THEN listed("in") ELSE keyed("in_value")
              [] operator = n_NOT \o <<" ">> \o n_IN ->
                    IF node.kids[2].type = "ARRAY" THEN listed("notIn") ELSE keyed("notIn_value")
              [] operator = n_IS \o <<" ">> \o n_NULL -> FNull(column)
              [] operator = n_IS \o <<" ">> \o n_NOT \o <<" ">> \o n_NULL -> FNotNull(column)
              [] operator \in {n_LIKE, n_ILIKE} ->
                    keyed(IF node.operator = n_ILIKE THEN "contains_insensitive" ELSE "contains")
              [] OTHER -> FPass

RECURSIVE astToPrismaFilter(_, _)
astToPrismaFilter(node, userVar) ==
    CASE node.type = "OR" ->
            FOr([k \in 1..Len(node.kids) |-> astToPrismaFilter(node.kids[k], userVar)])
      [] node.type = "AND" ->
            FAnd([k \in 1..Len(node.kids) |-> astToPrismaFilter(node.kids[k], userVar)])
      [] node.type = "NOT" ->
            FNode("NOT", <<>>, NoOperand, <<>>, <<>>,
                  <<astToPrismaFilter(node.kids[1], userVar)>>, NoJs)
      [] node.type = "COMPARISON" -> convertComparisonToPrisma(node, userVar)
      [] OTHER -> FPass

-----------------------------------------------------------------------------
(* The converters run on the text of one predicate: memberships, texts that
   are not well formed, and texts that are empty *)

\* the tokens that the patterns of the analyzers see in a text
RECURSIVE Lex(_)
Lex(s) ==
    LET closes == {i \in 2..Len(s) : s[i] = "'"}
        close == IF closes = {} THEN Len(s) + 1
                 ELSE CHOOSE i \in closes : \A j \in closes : i <= j
        stops == {i \in 1..Len(s) : s[i] \notin WordChars \cup {"."}}
        stop == IF stops = {} THEN Len(s) + 1
                ELSE CHOOSE i \in stops : \A j \in stops : i <= j
        type == WordRun(SubSeq(s, 3, Len(s)))
        isArray == Ch(s, Len(type) + 3) = "[" /\ Ch(s, Len(type) + 4) = "]"
        pair == <<Ch(s, 1), Ch(s, 2)>>
    IN IF s = <<>> THEN <<>>
       ELSE IF s[1] \in Whitespace THEN Lex(Tail(s))
       ELSE IF s[1] = "'"
       THEN <<Q(SubSeq(s, 2, close - 1))>> \o Lex(SubSeq(s, close + 1, Len(s)))
       ELSE IF stop > 1
       THEN <<W(SubSeq(s, 1, stop - 1))>> \o Lex(SubSeq(s, stop, Len(s)))
       ELSE IF pair = <<":", ":">> /\ type # <<>>
       THEN IF isArray
            THEN <<CastArrTok(type)>> \o Lex(SubSeq(s, Len(type) + 5, Len(s)))
            ELSE <<CastTok(type)>> \o Lex(SubSeq(s, Len(type) + 3, Len(s)))
       ELSE IF pair = <<"!", "=">> THEN <<P("!=")>> \o Lex(SubSeq(s, 3, Len(s)))
       ELSE IF pair = <<"<", ">">> THEN <<P("<>")>> \o Lex(SubSeq(s, 3, Len(s)))
       ELSE IF pair = <<"<", "=">> THEN <<P("<=")>> \o Lex(SubSeq(s, 3, Len(s)))
       ELSE IF pair = <<">", "=">> THEN <<P(">=")>> \o Lex(SubSeq(s, 3, Len(s)))
       ELSE <<P(s[1])>> \o Lex(Tail(s))

MaxValues == 3     \* values in one IN list

NumberValues == << <<"1">>, <<"2">>, <<"3">>, <<"4">>, <<"5">> >>
StringValues == << <<"'">> \o n_admin \o <<"'">>, <<"'">> \o n_mod \o <<"'">>,
                   <<"'">> \o n_guest \o <<"'">>, <<"'">> \o n_active \o <<"'">>,
                   <<"'">> \o n_u1 \o <<"'">> >>
ValueLists == {SubSeq(pool, 1, n) : pool \in {NumberValues, StringValues}, n \in 1..MaxValues}

\* v1, v2, ...
RECURSIVE JoinValues(_)
JoinValues(vals) ==
    IF Len(vals) = 1 THEN vals[1]
    ELSE vals[1] \o <<",", " ">> \o JoinValues(Tail(vals))

sp == <<" ">>

\* field [NOT] IN (v1, v2, ...)
Membership(field, negated, values, converter) ==
    [kind |-> "membership", field |-> field, negated |-> negated, values |-> values,
     shape |-> "in", converter |-> converter]

MembershipChars(p) ==
    p.field \o sp \o (IF p.negated THEN n_NOT \o sp ELSE <<>>) \o n_IN \o sp
    \o <<"(">> \o JoinValues(p.values) \o <<")">>

\* a text that is not a well-formed predicate
Malformed(field, shape, converter) ==
    [kind |-> "malformed", field |-> field, negated |-> FALSE, values |-> <<>>,
     shape |-> shape, converter |-> converter]

MalformedShapes == {"open_paren", "close_paren", "unknown_operator", "case_without_end",
                    "exists_unclosed"}

MalformedChars(p) ==
    CASE p.shape = "open_paren" -> <<"(">> \o p.field \o <<" ", "=", " ", "1">>
      [] p.shape = "close_paren" -> p.field \o <<" ", "=", " ", "1", ")">>
      [] p.shape = "unknown_operator" -> p.field \o <<" ", "?", "?", " ", "1">>
      [] p.shape = "case_without_end" ->
            n_CASE \o sp \o n_current_user_role \o <<"(", ")", " ">> \o n_WHEN \o sp
            \o <<"'">> \o n_admin \o <<"'", " ">> \o n_THEN \o sp \o p.field
            \o <<" ", "=", " ", "1">>
      [] OTHER ->
            n_EXISTS \o <<" ", "(">> \o n_SELECT \o <<" ", "1", " ">> \o n_FROM \o sp
            \o n_enrollments \o sp \o n_WHERE \o sp \o n_enrollments \o <<".">> \o p.field
            \o <<" ", "=", " ", "1">>

\* no text, or a text of white space only
Blank(shape, converter) ==
    [kind |-> "blank", field |-> <<>>, negated |-> FALSE, values |-> <<>>,
     shape |-> shape, converter |-> converter]

BlankShapes == {"null", "empty", "space", "spaces", "newline", "tab_space_newline"}

BlankText(p) ==
    CASE p.shape = "null" -> NullText
      [] p.shape = "empty" -> Text(<<>>)
      [] p.shape = "space" -> Text(<<" ">>)
      [] p.shape = "spaces" -> Text(<<" ", " ">>)
      [] p.shape = "newline" -> Text(<<"\n">>)
      [] OTHER -> Text(<<"\t", " ", "\n">>)

\* field = 1
Plain(field, converter) ==
    [kind |-> "plain", field |-> field, negated |-> FALSE, values |-> <<>>,
     shape |-> "equal", converter |-> converter]

TextConverters == {"sqlToJs", "enhanced", "auto"}

TextPolicies ==
    {Membership(f, n, v, c) : f \in MappingFields, n \in BOOLEAN, v \in ValueLists,
                              c \in TextConverters}
    \cup {Malformed(f, s, c) : f \in MappingFields, s \in MalformedShapes, c \in TextConverters}
    \cup {Blank(s, c) : s \in BlankShapes, c \in TextConverters}
    \cup {Plain(f, c) : f \in MappingFields, c \in TextConverters}

PolicyChars(p) ==
    CASE p.kind = "membership" -> Text(MembershipChars(p))
      [] p.kind = "malformed" -> Text(MalformedChars(p))
      [] p.kind = "blank" -> BlankText(p)
      [] OTHER -> Text(p.field \o <<" ", "=", " ", "1">>)

InitText ==
    /\ pc = {}
    /\ models = SchemaModels
    /\ relationships = generateRelationships(SchemaModels).relationships
    /\ modelName = n_Post
    /\ policy \in TextPolicies
    /\ functionAnalysis = NoAnalysis
    /\ sql = PolicyChars(policy)
    /\ analysis = EmptyAnalysis
    /\ prismaFilter = NotBuilt
    /\ jsExpr = NoJs
    /\ fnCode = NoJs
    /\ ast = NoAst

\* !sql || sql.trim() === ''
IsBlankText(raw) == raw.isNull \/ trim(raw.chars) = <<>>

\* parseSqlExpression(sql)
ParseSqlExpression ==
    /\ policy.converter = "sqlToJs"
    /\ "parse" \notin pc
    /\ pc' = pc \cup {"parse"}
    /\ ast' = parseSqlExpression(sql)
    /\ UNCHANGED <<functionAnalysis, models, relationships, modelName, policy, sql, analysis,
                   prismaFilter, jsExpr, fnCode>>

\* astToJavaScript(ast, 'data', 'user')
AstToJavaScript ==
    /\ "parse" \in pc
    /\ "javascript" \notin pc
    /\ pc' = pc \cup {"javascript"}
    /\ jsExpr' = astToJavaScript(ast, n_data, n_user)
    /\ UNCHANGED <<ast, functionAnalysis, models, relationships, modelName, policy, sql,
                   analysis, prismaFilter, fnCode>>

\* astToPrismaFilter(ast, 'user')
AstToPrismaFilter ==
    /\ "parse" \in pc
    /\ "filter" \notin pc
    /\ pc' = pc \cup {"filter"}
    /\ prismaFilter' = astToPrismaFilter(ast, n_user)
    /\ UNCHANGED <<ast, functionAnalysis, models, relationships, modelName, policy, sql,
                   analysis, jsExpr, fnCode>>

\* createEnhancedConverter(...).convertToJavaScript(sql, 'data', 'user', modelName)
EnhancedTextToJavaScript ==
    /\ policy.converter = "enhanced"
    /\ "javascript" \notin pc
    /\ pc' = pc \cup {"javascript"}
    /\ analysis' = IF IsBlankText(sql) THEN analysis
                   ELSE [analyzeSQLForFilters(Lex(sql.chars)) EXCEPT !.sql = Lex(sql.chars)]
    /\ jsExpr' = IF IsBlankText(sql) THEN JsTrue
                 ELSE EnhancedToJavaScript(models, relationships, Lex(sql.chars),
                                           n_data, n_user, modelName)
    /\ UNCHANGED <<ast, functionAnalysis, models, relationships, modelName, policy, sql,
                   prismaFilter, fnCode>>

\* createEnhancedConverter(...).convertToPrismaFilter(sql, 'user', modelName)
EnhancedTextToPrismaFilter ==
    /\ policy.converter = "enhanced"
    /\ "filter" \notin pc
    /\ pc' = pc \cup {"filter"}
    /\ analysis' = IF IsBlankText(sql) THEN analysis
                   ELSE [analyzeSQLForFilters(Lex(sql.chars)) EXCEPT !.sql = Lex(sql.chars)]
    /\ prismaFilter' = IF IsBlankText(sql) THEN FPass
                       ELSE EnhancedToPrismaFilter(models, relationships, Lex(sql.chars),
                                                   n_user, modelName)
    /\ UNCHANGED <<ast, functionAnalysis, models, relationships, modelName, policy, sql,
                   jsExpr, fnCode>>

\* createConverter().convertToJavaScript(sql, 'data', 'user')
AutoTextToJavaScript ==
    /\ policy.converter = "auto"
    /\ "javascript" \notin pc
    /\ pc' = pc \cup {"javascript"}
    /\ jsExpr' = IF IsBlankText(sql) THEN JsTrue
                 ELSE AutoToJavaScript(Lex(sql.chars), n_data, n_user)
    /\ UNCHANGED <<ast, functionAnalysis, models, relationships, modelName, policy, sql,
                   analysis, prismaFilter, fnCode>>

NextText ==
    \/ ParseSqlExpression \/ AstToJavaScript \/ AstToPrismaFilter
    \/ EnhancedTextToJavaScript \/ EnhancedTextToPrismaFilter \/ AutoTextToJavaScript

SpecText == InitText /\ [][NextText]_vars

\* C15: a text that is not a well-formed predicate (parentheses that do not
\* balance, an operator that is not known, CASE without END) ends in an error:
\* no tree is returned and nothing is compiled from it
C15_MalformedIsError ==
    policy.kind = "malformed"
    => /\ "parse" \in pc => ast = NoAst
       /\ "javascript" \in pc => jsExpr = JsThrown
       /\ "filter" \in pc => prismaFilter = NotBuilt

\* C19: a text that is null, empty or white space only compiles to the
\* predicate `true` and to the filter {}, and never ends in an error
C19_BlankIsOpen ==
    policy.kind = "blank"
    => /\ "javascript" \in pc => jsExpr = JsTrue
       /\ "filter" \in pc => prismaFilter = FPass

C19_Witness ==
    /\ policy.kind = "blank"
    /\ policy.shape = "tab_space_newline"
    /\ policy.converter = "sqlToJs"
    /\ {"parse", "javascript", "filter"} \subseteq pc

\* C20: x NOT IN (v1, ..., vn) parses to the operator NOT IN with the left
\* operand x and compiles to a negated membership test of x; it is never read
\* as IN with the left operand `x NOT`
C20_NotInIsNegated ==
    (policy.kind = "membership" /\ policy.negated /\ policy.converter = "sqlToJs")
    => /\ "parse" \in pc
          => /\ ast.type = "COMPARISON"
             /\ ast.operator = n_NOT \o sp \o n_IN
             /\ ast.kids[1] = Leaf("COLUMN", policy.field)
       /\ "javascript" \in pc
          => /\ jsExpr.k = "not_includes"
             /\ jsExpr.r = DataPath(n_data, policy.field)

-----------------------------------------------------------------------------
(* rlsGenerator: the functions of every model, built from its policies by a
   converter that may raise on the text of a policy *)

n_TODO == <<"T","O","D","O">>

\* a row of pg_policies with command ALL; raises marks a policy on whose
\* text the converter handed to the generator raises
AclPolicy(name, atom, raises) ==
    [name |-> name, atom |-> atom, raises |-> raises, using |-> AtomText(atom),
     command |-> "ALL"]

\* policy.using, which is policy.withCheck || policy.using as well
PolicyExpr(p) == p.using

\* the conditions the loop of generateFunction collects: the converted
\* expression, or in the catch branch `true /* TODO ... */`
FunctionConditions(ms, rels, policies, name) ==
    [k \in 1..Len(policies) |->
        IF policies[k].raises THEN JsTrueNote(n_TODO)
        ELSE EnhancedToJavaScript(ms, rels, PolicyExpr(policies[k]), n_data, n_user, name)]

\* an element of filtersWithRoles
FilterItem(filter, roleConditions) ==
    [filter |-> filter, roleConditions |-> roleConditions, hasDataFilter |-> filter # FPass]

\* the loop of generateFunction's sibling generateFilter: the catch branch
\* pushes nothing
FilterItems(ms, rels, policies, name) ==
    LET converted == SelectSeq(policies, LAMBDA p : ~p.raises)
    IN [k \in 1..Len(converted) |->
           FilterItem(EnhancedToPrismaFilter(ms, rels, PolicyExpr(converted[k]), n_user, name),
                      SelectSeq(analyzeSQLForFilters(PolicyExpr(converted[k])).conditions,
                                IsRoleCondition))]

\* the body of a filter function: if (roles hold user?.role) return {}; return ret;
FilterCode(roles, ret) == [roles |-> roles, ret |-> ret]
FFalse == FNode("false", <<>>, NoOperand, <<>>, <<>>, <<>>, NoJs)    \* false

buildConditionalFilter(items) ==
    LET early == {k \in 1..Len(items) :
                    /\ items[k].roleConditions # <<>>
                    /\ items[k].hasDataFilter
                    /\ items[k].filter.k = "if"}
        first == CHOOSE k \in early : \A j \in early : k <= j
        roleOnly == Flatten([k \in 1..Len(items) |->
                        IF items[k].roleConditions # <<>> /\ ~items[k].hasDataFilter
                        THEN items[k].roleConditions ELSE <<>>])
        rolesWithFullAccess ==
            Dedup(Flatten([k \in 1..Len(roleOnly) |->
                        IF roleOnly[k].type = "role_any" THEN roleOnly[k].roles
                        ELSE <<roleOnly[k].role>>]))
        dataFilters == Flatten([k \in 1..Len(items) |->
                        IF items[k].hasDataFilter THEN <<items[k].filter>> ELSE <<>>])
        uniqueDataFilters == Dedup(dataFilters)
    IN IF early # {} THEN FilterCode(<<>>, items[first].filter)
       ELSE FilterCode(rolesWithFullAccess,
                IF uniqueDataFilters = <<>> THEN FFalse
                ELSE IF Len(uniqueDataFilters) = 1 THEN uniqueDataFilters[1]
                ELSE FOr(uniqueDataFilters))

\* the end of generateFilter, for the items its loop collected
FilterBody(policies, items) ==
    IF policies = <<>> \/ items = <<>> THEN FilterCode(<<>>, FFalse)
    ELSE buildConditionalFilter(items)

generateFilter(ms, rels, policies, name) ==
    FilterBody(policies, FilterItems(ms, rels, policies, name))

IsEmptyOrFalse(code) == code.roles = <<>> /\ code.ret \in {FFalse, FPass}

\* an update or delete filter that is never replaced
NeverCopied(code, accessFilterCode) == code

\* updateFilterCode / deleteFilterCode: the access filter when they deny or
\* pass everything and the access filter does not
CopiedFilter(code, accessFilterCode) ==
    IF IsEmptyOrFalse(code) /\ ~IsEmptyOrFalse(accessFilterCode)
    THEN accessFilterCode ELSE code

\* the object generateModelACL prints, for the bodies of its functions
ModelACL(policies, canCreateCode, accessFilterCode, updateFilterCode, deleteFilterCode) ==
    IF policies = <<>>
    THEN [canCreate |-> JsTrue,
          getAccessFilter |-> FilterCode(<<>>, FPass),
          getUpdateFilter |-> FilterCode(<<>>, FPass),
          getDeleteFilter |-> FilterCode(<<>>, FPass)]
    ELSE [canCreate |-> canCreateCode,
          getAccessFilter |-> accessFilterCode,
          getUpdateFilter |-> CopiedFilter(updateFilterCode, accessFilterCode),
          getDeleteFilter |-> CopiedFilter(deleteFilterCode, accessFilterCode)]

\* policies.filter(p => p.command === command || p.command === 'ALL')
PoliciesFor(policies, command) ==
    SelectSeq(policies, LAMBDA p : p.command \in {command, "ALL"})

\* the four functions of one model
generateModelACL(ms, rels, name, policies) ==
    ModelACL(policies,
             generateFunction(FunctionConditions(ms, rels,
                                  PoliciesFor(policies, "INSERT"), name)),
             generateFilter(ms, rels, PoliciesFor(policies, "SELECT"), name),
             generateFilter(ms, rels, PoliciesFor(policies, "UPDATE"), name),
             generateFilter(ms, rels, PoliciesFor(policies, "DELETE"), name))

MaxPolicies == 2   \* policies of the first model

AclModels == <<n_Post, n_Course>>

AclAtoms == {FieldIsActor(n_owner_id, n_current_user_id),
             FieldIs(n_status, n_active),
             RoleAny(n_current_user_role, <<n_admin>>)}

\* policyname of the k-th row of one table
PolicyNames == <<"p1", "p2", "p3", "p4">>

AclPolicyLists(lengths) ==
    UNION {{[k \in 1..n |-> AclPolicy(PolicyNames[k], as[k], rs[k])] :
                as \in [1..n -> AclAtoms], rs \in [1..n -> BOOLEAN]} : n \in lengths}

\* generateACL has extracted policies[modelName] for every model
InitACL ==
    /\ pc = {}
    /\ models = SchemaModels
    /\ relationships = generateRelationships(SchemaModels).relationships
    /\ \E first \in AclPolicyLists(0..MaxPolicies), second \in AclPolicyLists({1}) :
            policy = [m \in {n_Post, n_Course} |-> IF m = n_Post THEN first ELSE second]
    /\ modelName = n_Post
    /\ sql = <<>>
    /\ analysis = EmptyAnalysis
    /\ prismaFilter = NotBuilt
    /\ jsExpr = NoJs
    /\ fnCode = NoJs
    /\ functionAnalysis = NoAnalysis
    /\ ast = NoAst

\* modelNames.map(modelName => generateModelACL(modelName, policies[modelName], converter))
GenerateACL ==
    /\ "acl" \notin pc
    /\ pc' = pc \cup {"acl"}
    /\ fnCode' = [m \in DOMAIN policy |->
                    generateModelACL(models, relationships, m, policy[m])]
    /\ UNCHANGED <<ast, functionAnalysis, models, relationships, modelName, policy, sql,
                   analysis, prismaFilter, jsExpr>>

NextACL == GenerateACL

SpecACL == InitACL /\ [][NextACL]_vars

Failing(m) == {k \in 1..Len(policy[m]) : policy[m][k].raises}
Converted(m) == SelectSeq(policy[m], LAMBDA p : ~p.raises)

\* C16: when the conversion of a policy of a model raises, the model's
\* canCreate is not the permissive `return true;` and its access filter is not
\* the one generated from the model's policies with the failing ones left out
C16_FailureIsNotDowngraded ==
    "acl" \in pc
    => \A m \in DOMAIN policy :
          Failing(m) # {}
          => /\ fnCode[m].canCreate # JsTrue
             /\ fnCode[m].getAccessFilter
                    # generateFilter(models, relationships, Converted(m), m)

JsAppears(js, code) == code = js \/ (code.k = "or" /\ SeqHas(code.args, js))

FilterAppears(item, code) ==
    IF item.hasDataFilter
    THEN code.ret = item.filter \/ (code.ret.k = "OR" /\ SeqHas(code.ret.args, item.filter))
    ELSE \A i \in 1..Len(item.roleConditions) :
            LET c == item.roleConditions[i]
                rs == IF c.type = "role_any" THEN c.roles ELSE <<c.role>>
            IN \A j \in 1..Len(rs) : SeqHas(code.roles, rs[j])

\* C17: whatever the position of a policy whose conversion raises, the
\* converted expression of every other policy of the model appears in the
\* model's canCreate and its filter in the model's access filter, and the
\* functions of the other model are the ones generated for it alone
C17_SiblingsAreKept ==
    "acl" \in pc
    => \A m \in DOMAIN policy :
          /\ fnCode[m] = generateModelACL(models, relationships, m, policy[m])
          /\ \A k \in 1..Len(policy[m]) :
                ~policy[m][k].raises
                => /\ JsAppears(EnhancedToJavaScript(models, relationships,
                                    PolicyExpr(policy[m][k]), n_data, n_user, m),
                                fnCode[m].canCreate)
                   /\ FilterAppears(FilterItems(models, relationships,
                                        <<policy[m][k]>>, m)[1],
                                    fnCode[m].getAccessFilter)

\* the same, when no conversion raises
SiblingsKeptWithoutFailure ==
    ("acl" \in pc /\ \A m \in DOMAIN policy : Failing(m) = {}) => C17_SiblingsAreKept

\* the filter part alone: the siblings of a failing policy stay in the filter
FilterSiblingsKept ==
    "acl" \in pc
    => \A m \in DOMAIN policy : \A k \in 1..Len(policy[m]) :
            ~policy[m][k].raises
            => FilterAppears(FilterItems(models, relationships, <<policy[m][k]>>, m)[1],
                             fnCode[m].getAccessFilter)

-----------------------------------------------------------------------------
(* One converter of createEnhancedConverter, called again and again *)

MaxCalls == 3   \* conversions made on the one converter

\* the object a call of analyzeSQLForFilters would fill if it went on with
\* the one the call before left
KeptAnalysis(previous) == previous

\* const analysis = { filters: [], conditions: [], userContext: {} }
NewAnalysis(previous) == EmptyAnalysis

\* analyzer.analyzeSQLForFilters(sql); analysis.sql = sql: the extract
\* methods push what they find onto the object the call starts from
AnalyzeCall(previous, text) ==
    [filters |-> NewAnalysis(previous).filters \o analyzeSQLForFilters(text).filters,
     conditions |-> NewAnalysis(previous).conditions \o analyzeSQLForFilters(text).conditions,
     sql |-> text]

RepeatTexts == {AtomText(FieldIsActor(n_owner_id, n_current_user_id)),
                AtomText(RoleAny(n_current_user_role, <<n_admin>>))}
RepeatModels == {n_Post, n_Course}

\* one finished call and what it returned
Call(kind, text, name, out) == [kind |-> kind, sql |-> text, modelName |-> name, out |-> out]

\* createEnhancedConverter(functionMappings, sessionVariables, models, relationships)
InitRepeat ==
    /\ pc = <<>>
    /\ models = SchemaModels
    /\ relationships = generateRelationships(SchemaModels).relationships
    /\ functionAnalysis \in {NoAnalysis,
                             DiscoveredFor(FunctionPolicy(n_owner_id, n_current_user_id, "enhanced"))}
    /\ policy = <<>>
    /\ modelName = n_Post
    /\ sql = <<>>
    /\ analysis = EmptyAnalysis
    /\ prismaFilter = NotBuilt
    /\ jsExpr = NoJs
    /\ fnCode = NoJs
    /\ ast = NoAst

\* converter.convertToJavaScript(text, 'data', 'user', name)
RepeatToJavaScript ==
    /\ Len(pc) < MaxCalls
    /\ \E text \in RepeatTexts, name \in RepeatModels :
          /\ sql' = text
          /\ modelName' = name
          /\ analysis' = AnalyzeCall(analysis, text)
          /\ jsExpr' = buildJavaScriptCondition(models, relationships, name,
                            AnalyzeCall(analysis, text), n_data, n_user)
          /\ pc' = Append(pc, Call("javascript", text, name, jsExpr'))
    /\ UNCHANGED <<ast, functionAnalysis, models, relationships, policy, prismaFilter, fnCode>>

\* converter.convertToPrismaFilter(text, 'user', name)
RepeatToPrismaFilter ==
    /\ Len(pc) < MaxCalls
    /\ \E text \in RepeatTexts, name \in RepeatModels :
          /\ sql' = text
          /\ modelName' = name
          /\ analysis' = AnalyzeCall(analysis, text)
          /\ prismaFilter' = buildFilter(models, relationships, name,
                                AnalyzeCall(analysis, text), n_user)
          /\ pc' = Append(pc, Call("filter", text, name, prismaFilter'))
    /\ UNCHANGED <<ast, functionAnalysis, models, relationships, policy, jsExpr, fnCode>>

NextRepeat == RepeatToJavaScript \/ RepeatToPrismaFilter

SpecRepeat == InitRepeat /\ [][NextRepeat]_vars

SameCall(a, b) == a.kind = b.kind /\ a.sql = b.sql /\ a.modelName = b.modelName

-----------------------------------------------------------------------------
(* autoRLSConverter: convertToPrismaFilter *)

\* ^(\w+): the text starts with a word that holds no dot
StartsWithName(s) == s # <<>> /\ IsWord(s[1]) /\ FirstSegment(s[1].v) = s[1].v

\* a text without a logical operator at depth 0, tried against the patterns
\* of convertToPrismaFilter in their order
AutoFilterAtom(s, userVar) ==
    IF /\ Len(s) >= 3
       /\ IsWord(s[1])
       /\ toLowerCase(s[1].v) \in {n_get_current_user_role, n_current_user_role}
       /\ s[2] = LP /\ s[3] = RP
    THEN FPass
    ELSE IF /\ StartsWithName(s) /\ Tok(s, 2) = EQ
            /\ StartsWithName(SubSeq(s, 3, Len(s)))
            /\ Tok(s, 4) = LP
            /\ FirstAfter(s, 4, RP) = Len(s)
    THEN IF includes(toLowerCase(s[3].v), n_role) THEN FPass
         ELSE FEq(s[1].v, getFunctionMapping(s[3].v, userVar))
    ELSE IF /\ StartsWithName(s) /\ Tok(s, 2) = EQ /\ Tok(s, 3) = LP
            /\ IsKw(Tok(s, 4), n_current_setting)
            /\ Tok(s, 5) = LP
            /\ Tok(s, 6).t = "q" /\ Len(Tok(s, 6).v) > 0
    THEN FEq(s[1].v, getSessionMapping(s[6].v, userVar))
    ELSE IF /\ StartsWithName(s) /\ Tok(s, 2) = EQ
            /\ Tok(s, 3).t = "q" /\ Len(Tok(s, 3).v) > 0
    THEN FEq(s[1].v, StrOp(s[3].v))
    ELSE IF /\ StartsWithName(s) /\ Tok(s, 2) = EQ /\ Len(s) = 3
            /\ IsWord(s[3]) /\ IsDigits(s[3].v)
    THEN FEq(s[1].v, RawOp(s[3].v))
    ELSE FPass

\* parts.map(convert).filter(f => f !== '{}'), joined under the operator
AutoJoinFilters(filters, junction) ==
    IF SelectSeq(filters, LAMBDA f : f # FPass) = <<>> THEN FPass
    ELSE IF Len(SelectSeq(filters, LAMBDA f : f # FPass)) = 1
    THEN SelectSeq(filters, LAMBDA f : f # FPass)[1]
    ELSE FNode(junction, <<>>, NoOperand, <<>>, <<>>,
               SelectSeq(filters, LAMBDA f : f # FPass), NoJs)

RECURSIVE AutoToPrismaFilter(_, _)
AutoToPrismaFilter(s, userVar) ==
    IF s = <<>> THEN FPass
    ELSE IF Len(splitLogicalOperator(s, n_OR)) > 1
    THEN AutoJoinFilters([k \in 1..Len(splitLogicalOperator(s, n_OR)) |->
                             AutoToPrismaFilter(splitLogicalOperator(s, n_OR)[k], userVar)],
                         "OR")
    ELSE IF Len(splitLogicalOperator(s, n_AND)) > 1
    THEN AutoJoinFilters([k \in 1..Len(splitLogicalOperator(s, n_AND)) |->
                             AutoToPrismaFilter(splitLogicalOperator(s, n_AND)[k], userVar)],
                         "AND")
    ELSE AutoFilterAtom(s, userVar)

-----------------------------------------------------------------------------
(* Policies made of role checks, alone and beside a condition on the record *)

n_moderator == <<"m","o","d","e","r","a","t","o","r">>

\* provider() IN ('r1', ...)
RoleIn(provider, roles) == Atom("role_in", <<>>, provider, roles, <<>>, <<>>)

RoleAtomText(x) ==
    IF x.a = "role_in"
    THEN <<W(x.provider), LP, RP, W(n_IN), LP>> \o LiteralList(x.roles) \o <<RP>>
    ELSE AtomText(x)

RECURSIVE RolePolicyText(_, _)
RolePolicyText(p, i) ==
    IF i > Len(p.atoms) THEN <<>>
    ELSE (IF i = 1 THEN <<>>
          ELSE <<W(IF p.ops[i - 1] = "OR" THEN n_OR ELSE n_AND)>>)
         \o RoleAtomText(p.atoms[i]) \o RolePolicyText(p, i + 1)

\* a blog: posts have an author
BlogModels ==
    <<UserModelDef,
      Model(n_Post, <<IdField(n_id), ScalarField(n_author_id), ScalarField(n_status)>>,
            <<>>, <<>>)>>

ReadmeRoles == <<n_admin, n_moderator>>

IsRoleAtom(x) == x.a \in {"role_any", "role_equal", "role_in"}

RoleAtoms ==
    {RoleAny(p, rs) : p \in RoleProviders, rs \in RoleLists \cup {ReadmeRoles}}
    \cup {RoleIs(p, n_admin) : p \in RoleProviders}
    \cup {RoleIn(p, rs) : p \in RoleProviders, rs \in RoleLists \cup {ReadmeRoles}}

SecondRoleAtoms == {x \in RoleAtoms : x.provider = n_current_user_role /\ x.roles # ReadmeRoles}

RecordAtoms == {FieldIsActor(n_author_id, n_current_user_id), FieldIs(n_status, n_active)}

RolePolicy(atoms, ops, converter) == [atoms |-> atoms, ops |-> ops, converter |-> converter]

RolePolicies ==
    {RolePolicy(<<a>>, <<>>, c) : a \in RoleAtoms, c \in {"enhanced", "auto"}}
    \cup {RolePolicy(<<a, b>>, <<o>>, c) :
             a \in RoleAtoms, b \in SecondRoleAtoms, o \in Connectives, c \in {"enhanced", "auto"}}
    \cup {RolePolicy(<<a, b>>, <<o>>, c) :
             a \in RoleAtoms, b \in RecordAtoms, o \in Connectives, c \in {"enhanced", "auto"}}
    \cup {RolePolicy(<<b, a>>, <<o>>, c) :
             a \in RoleAtoms, b \in RecordAtoms, o \in Connectives, c \in {"enhanced", "auto"}}

InitRole ==
    /\ pc = {}
    /\ models = BlogModels
    /\ relationships = generateRelationships(BlogModels).relationships
    /\ modelName = n_Post
    /\ policy \in RolePolicies
    /\ sql = RolePolicyText(policy, 1)
    /\ analysis = EmptyAnalysis
    /\ prismaFilter = NotBuilt
    /\ jsExpr = NoJs
    /\ fnCode = NoJs
    /\ functionAnalysis = NoAnalysis
    /\ ast = NoAst

\* converter.convertToPrismaFilter(sql, 'user', modelName)
RoleToPrismaFilter ==
    /\ "filter" \notin pc
    /\ pc' = pc \cup {"filter"}
    /\ prismaFilter' = IF policy.converter = "enhanced"
                       THEN EnhancedToPrismaFilter(models, relationships, sql, n_user, modelName)
                       ELSE AutoToPrismaFilter(sql, n_user)
    /\ UNCHANGED <<ast, functionAnalysis, models, relationships, modelName, policy, sql,
                   analysis, jsExpr, fnCode>>

\* converter.convertToJavaScript(sql, 'data', 'user', modelName)
RoleToJavaScript ==
    /\ "javascript" \notin pc
    /\ pc' = pc \cup {"javascript"}
    /\ jsExpr' = IF policy.converter = "enhanced"
                 THEN EnhancedToJavaScript(models, relationships, sql, n_data, n_user, modelName)
                 ELSE AutoToJavaScript(sql, n_data, n_user)
    /\ UNCHANGED <<ast, functionAnalysis, models, relationships, modelName, policy, sql,
                   analysis, prismaFilter, fnCode>>

\* generateFilter([policy], 'using', converter, modelName), with the converter
\* generateACL creates
RoleGenerateFilter ==
    /\ "access" \notin pc
    /\ policy.converter = "enhanced"
    /\ pc' = pc \cup {"access"}
    /\ fnCode' = generateFilter(models, relationships,
                    <<[name |-> "p1", raises |-> FALSE, using |-> sql]>>, modelName)
    /\ UNCHANGED <<ast, functionAnalysis, models, relationships, modelName, policy, sql,
                   analysis, prismaFilter, jsExpr>>

NextRole == RoleToPrismaFilter \/ RoleToJavaScript \/ RoleGenerateFilter

SpecRole == InitRole /\ [][NextRole]_vars

\* the fields a filter constrains
RECURSIVE FilterFields(_)
FilterFields(f) ==
    (IF f.field # <<>> THEN {f.field} ELSE {})
    \cup UNION {FilterFields(f.args[k]) : k \in 1..Len(f.args)}

RoleOnly == \A k \in 1..Len(policy.atoms) : IsRoleAtom(policy.atoms[k])

RecordFields == {policy.atoms[k].field : k \in {j \in 1..Len(policy.atoms) : ~IsRoleAtom(policy.atoms[j])}}

ReadmePolicy ==
    RolePolicy(<<FieldIsActor(n_author_id, n_current_user_id),
                 RoleIn(n_current_user_role, ReadmeRoles)>>, <<"OR">>, "enhanced")

\* the policy with every IN (...) on a provider written = ANY (ARRAY[...])
AsAny(p) ==
    [p EXCEPT !.atoms = [k \in 1..Len(p.atoms) |->
                            IF p.atoms[k].a = "role_in"
                            THEN RoleAny(p.atoms[k].provider, p.atoms[k].roles)
                            ELSE p.atoms[k]]]

\* data?.author_id === user?.id || ['admin', 'moderator'].includes(user?.role)
ReadmeHasAccess ==
    JsOr(<<JsEq(DataPath(n_data, n_author_id), PathOp(n_user, <<Step(n_id, TRUE)>>)),
           JsIncludes(ReadmeRoles, UserRolePath(n_user))>>)

\* if (['admin', 'moderator'].includes(user?.role)) return {}; return { author_id: user?.id };
ReadmeAccessFilter ==
    FilterCode(<<>>, FIf(JsIncludes(ReadmeRoles, UserRolePath(n_user)),
                         FEq(n_author_id, PathOp(n_user, <<Step(n_id, TRUE)>>))))

\* C23: the policy of the README gives the hasAccess and the getAccessFilter
\* the README shows, and a policy with a role membership written IN (...)
\* gives what the same policy gives with the membership written = ANY (ARRAY[...])
C23_RoleInIsRoleCheck ==
    /\ policy = ReadmePolicy
       => /\ "javascript" \in pc => jsExpr = ReadmeHasAccess
          /\ "access" \in pc => fnCode = ReadmeAccessFilter
    /\ (policy.converter = "enhanced"
        /\ \E k \in 1..Len(policy.atoms) : policy.atoms[k].a = "role_in")
       => /\ "javascript" \in pc
             => jsExpr = EnhancedToJavaScript(models, relationships,
                            RolePolicyText(AsAny(policy), 1), n_data, n_user, modelName)
          /\ "access" \in pc
             => fnCode = generateFilter(models, relationships,
                            <<[name |-> "p1", raises |-> FALSE,
                               using |-> RolePolicyText(AsAny(policy), 1)]>>, modelName)

\* the README outputs are the ones of the policy written with = ANY (ARRAY[...])
ReadmeWithAny ==
    policy = AsAny(ReadmePolicy)
    => /\ "javascript" \in pc => jsExpr = ReadmeHasAccess
       /\ "access" \in pc => fnCode = ReadmeAccessFilter

-----------------------------------------------------------------------------
(* sqlToJsConverter: literals through parseValue and valueToJS *)

MaxLiteral == 3   \* characters of a string value

LiteralChars == {"a", "'", " "}

LiteralStrings == UNION {[1..n -> LiteralChars] : n \in 0..MaxLiteral}

\* the SQL literal of a string: quotes doubled, between quotes
SqlQuote(v) ==
    <<"'">> \o Flatten([k \in 1..Len(v) |-> IF v[k] = "'" THEN <<"'", "'">> ELSE <<v[k]>>])
    \o <<"'">>

LiteralIntegers ==
    {<<"0">>, <<"7">>, <<"4","2">>, <<"-","5">>, <<"1","0","0">>,
     <<"2","1","4","7","4","8","3","6","4","7">>}

LiteralBooleans ==
    {<<"T","R","U","E">>, <<"t","r","u","e">>, <<"T","r","u","e">>, <<"t","R","u","E">>,
     <<"F","A","L","S","E">>, <<"f","a","l","s","e">>, <<"F","a","l","s","e">>}

\* a literal: the value it denotes and the text that denotes it
Literal(kind, value, text) == [kind |-> kind, value |-> value, text |-> text]

Literals ==
    {Literal("STRING", v, SqlQuote(v)) : v \in LiteralStrings}
    \cup {Literal("NUMBER", v, v) : v \in LiteralIntegers}
    \cup {Literal("BOOLEAN", toLowerCase(v), v) : v \in LiteralBooleans}

InitLiteral ==
    /\ pc = {}
    /\ models = <<>>
    /\ relationships = <<>>
    /\ modelName = <<>>
    /\ policy \in Literals
    /\ sql = policy.text
    /\ analysis = EmptyAnalysis
    /\ prismaFilter = NotBuilt
    /\ jsExpr = NoJs
    /\ fnCode = NoJs
    /\ functionAnalysis = NoAnalysis
    /\ ast = NoAst

\* parseValue(text)
ParseValue ==
    /\ "parse" \notin pc
    /\ pc' = pc \cup {"parse"}
    /\ ast' = parseValue(sql)
    /\ UNCHANGED <<functionAnalysis, models, relationships, modelName, policy, sql, analysis,
                   prismaFilter, jsExpr, fnCode>>

\* valueToJS(node, 'data', 'user')
ValueToJS ==
    /\ "parse" \in pc
    /\ "javascript" \notin pc
    /\ pc' = pc \cup {"javascript"}
    /\ jsExpr' = JsOf("value", valueToJS(ast, n_data, n_user), NoOperand, <<>>, <<>>)
    /\ UNCHANGED <<ast, functionAnalysis, models, relationships, modelName, policy, sql,
                   analysis, prismaFilter, fnCode>>

NextLiteral == ParseValue \/ ValueToJS

SpecLiteral == InitLiteral /\ [][NextLiteral]_vars

\* the string a JavaScript literal between single quotes denotes
RECURSIVE JsUnescape(_)
JsUnescape(v) ==
    IF v = <<>> THEN <<>>
    ELSE IF v[1] = "\\" /\ Len(v) >= 2 THEN <<v[2]>> \o JsUnescape(SubSeq(v, 3, Len(v)))
    ELSE <<v[1]>> \o JsUnescape(Tail(v))

\* the value the rendered operand evaluates to
JsValueOf(op) == IF op.o = "str" THEN JsUnescape(op.v) ELSE op.v

\* C22: the node parsed from a literal holds the value the literal denotes,
\* and the JavaScript rendered from the node evaluates to that value
C22_LiteralRoundTrip ==
    /\ "parse" \in pc => ast = Leaf(policy.kind, policy.value)
    /\ "javascript" \in pc => JsValueOf(jsExpr.l) = policy.value

\* the same for the literals that hold no quote character
RoundTripWithoutQuote ==
    (\A k \in 1..Len(policy.value) : policy.value[k] # "'") => C22_LiteralRoundTrip

-----------------------------------------------------------------------------
(* buildModels with --model: the files relationships.json and rls.js *)

n_BlogPost == <<"B","l","o","g","P","o","s","t">>
n_rel_blog_owner == <<"r","e","l","_","b","l","o","g","_","o","w","n","e","r">>

BlogPostModel ==
    Model(n_BlogPost,
          <<IdField(n_id), ScalarField(n_owner_id),
            RelField(n_owner, n_rel_blog_owner, <<n_owner_id>>)>>,
          <<Relation(n_owner, n_User, FALSE, n_rel_blog_owner, <<n_owner_id>>)>>,
          <<>>)

\* the models of the schema, in the order the parser returns them
BuildSchema == <<UserModelDef, BlogPostModel, PostModel>>

BuildNames == [k \in 1..Len(BuildSchema) |-> BuildSchema[k].name]

\* a file that does not exist
NoFile == <<[missing |-> TRUE]>>

\* an entry of rls.js: `name: { canCreate ..., getAccessFilter ..., ... }`
RlsEntry(name, body) == [name |-> name, body |-> body]

\* the policy the database holds for a table, when it holds one
OwnerPolicy == AclPolicy("p1", FieldIsActor(n_owner_id, n_current_user_id), FALSE)

\* generateRLS(models, path, url, isPostgreSQL, ...): the entries written, for
\* the policies extracted (none without PostgreSQL)
generateRLS(ms, rels, names, isPostgreSQL, extracted) ==
    [k \in 1..Len(names) |->
        RlsEntry(names[k],
                 generateModelACL(ms, rels, names[k],
                                  IF isPostgreSQL THEN extracted ELSE <<>>))]

\* existingContent.replace(existingModelPattern, modelRls): the pattern is the
\* text `name:` wherever it stands, so it is found first at the first entry
\* whose name ends with the name
FirstEntryMatch(entries, name) ==
    LET hits == {k \in 1..Len(entries) : endsWith(entries[k].name, name)}
    IN IF hits = {} THEN 0 ELSE CHOOSE k \in hits : \A j \in hits : k <= j

\* the file after the update: the entry alone when there was no file, in the
\* place of the entry the pattern found, or added after the last entry
ReplaceOrInsert(existing, found, entry) ==
    IF existing = NoFile THEN <<entry>>
    ELSE IF found > 0 THEN [existing EXCEPT ![found].body = entry.body]
    ELSE Append(existing, entry)

\* updateRLSForModel for the one filtered model
updateRLSForModel(ms, rels, name, existing, extracted) ==
    ReplaceOrInsert(existing,
                    IF existing = NoFile THEN 0 ELSE FirstEntryMatch(existing, name),
                    generateRLS(ms, rels, <<name>>, TRUE, extracted)[1])

\* { ...existingRelationships, ...newRelationships }
MergeRelationships(existing, new) ==
    [k \in 1..Len(existing) |->
        IF \E j \in 1..Len(new) : new[j].model = existing[k].model
        THEN new[CHOOSE j \in 1..Len(new) : new[j].model = existing[k].model]
        ELSE existing[k]]
    \o SelectSeq(new, LAMBDA e : \A k \in 1..Len(existing) : existing[k].model # e.model)

\* updateRelationshipsForModel for the one filtered model
updateRelationshipsForModel(ms, name, existing) ==
    MergeRelationships(IF existing = NoFile THEN <<>> ELSE existing,
                       SelectSeq(generateRelationships(ms).relationships,
                                 LAMBDA e : e.model = name))

\* what the two files hold before the build: for every model an entry that
\* is up to date or one written by hand, or no file at all
RlsFilesBefore ==
    {NoFile}
    \cup {[k \in 1..Len(BuildNames) |->
              RlsEntry(BuildNames[k],
                       generateModelACL(BuildSchema, <<>>, BuildNames[k],
                                        IF k \in owned THEN <<OwnerPolicy>> ELSE <<>>))] :
          owned \in SUBSET (1..Len(BuildNames))}

RelationshipFilesBefore ==
    {NoFile}
    \cup {[k \in 1..Len(BuildNames) |->
              IF k \in stale THEN [model |-> BuildNames[k], relations |-> <<>>]
              ELSE generateRelationships(BuildSchema).relationships[k]] :
          stale \in SUBSET (1..Len(BuildNames))}

\* the options and the surroundings of one build
Build(model, isPostgreSQL, fails, extracted) ==
    [model |-> model, isPostgreSQL |-> isPostgreSQL, fails |-> fails, extracted |-> extracted]

Builds ==
    {Build(m, pg, f, e) : m \in {n_Post, n_BlogPost}, pg \in BOOLEAN, f \in BOOLEAN,
                          e \in {<<>>, <<OwnerPolicy>>}}

InitBuild ==
    /\ pc = {}
    /\ models = BuildSchema
    /\ policy \in Builds
    /\ relationships \in RelationshipFilesBefore
    /\ fnCode \in RlsFilesBefore
    /\ modelName = policy.model
    /\ sql = <<>>
    \* the two files as they were before the build
    /\ analysis = [relationships |-> relationships, rls |-> fnCode]
    /\ prismaFilter = NotBuilt
    /\ jsExpr = NoJs
    /\ functionAnalysis = NoAnalysis
    /\ ast = NoAst

\* buildModels, shouldGenerate.relationship with options.model
BuildRelationships ==
    /\ pc = {}
    /\ pc' = {"relationship"}
    /\ relationships' = updateRelationshipsForModel(models, modelName, relationships)
    /\ UNCHANGED <<ast, functionAnalysis, models, modelName, policy, sql, analysis,
                   prismaFilter, jsExpr, fnCode>>

\* buildModels, shouldGenerate.rls with options.model: the branch for the
\* datasource, and the catch branch when the try block throws before it writes
BuildRLS ==
    /\ pc = {"relationship"}
    /\ pc' = {"relationship", "rls"}
    /\ fnCode' = IF policy.fails \/ ~policy.isPostgreSQL
                 THEN generateRLS(models, relationships, BuildNames, FALSE, <<>>)
                 ELSE updateRLSForModel(models, relationships, modelName, fnCode,
                                        policy.extracted)
    /\ UNCHANGED <<ast, functionAnalysis, models, relationships, modelName, policy, sql,
                   analysis, prismaFilter, jsExpr>>

NextBuild == BuildRelationships \/ BuildRLS

SpecBuild == InitBuild /\ [][NextBuild]_vars

\* the entry of a model in a file of entries, as a list of one entry; empty
\* when the file or the entry is missing
FileEntry(file, key(_), name) ==
    IF file = NoFile \/ \A k \in 1..Len(file) : key(file[k]) # name THEN <<>>
    ELSE <<file[CHOOSE k \in 1..Len(file) : key(file[k]) = name]>>

RelKey(e) == e.model
RlsKey(e) == e.name

\* C24: after a build with --model M, the entry of every other model in
\* relationships.json and in rls.js is the one the file held before the build
C24_OtherModelsUntouched ==
    \A k \in 1..Len(BuildNames) :
        BuildNames[k] # policy.model
        => /\ "relationship" \in pc
              => FileEntry(relationships, RelKey, BuildNames[k])
                    = FileEntry(analysis.relationships, RelKey, BuildNames[k])
           /\ "rls" \in pc
              => FileEntry(fnCode, RlsKey, BuildNames[k])
                    = FileEntry(analysis.rls, RlsKey, BuildNames[k])

\* the part about relationships.json alone
RelationshipsOfOthersUntouched ==
    "relationship" \in pc
    => \A k \in 1..Len(BuildNames) :
          BuildNames[k] # policy.model
          => FileEntry(relationships, RelKey, BuildNames[k])
                = FileEntry(analysis.relationships, RelKey, BuildNames[k])

\* rls.js on the PostgreSQL path without a failure, for a model whose name
\* ends no other model's name
RlsOfOthersUntouchedOnUpdate ==
    ("rls" \in pc /\ policy.isPostgreSQL /\ ~policy.fails /\ policy.model = n_BlogPost)
    => \A k \in 1..Len(BuildNames) :
          BuildNames[k] # policy.model
          => FileEntry(fnCode, RlsKey, BuildNames[k])
                = FileEntry(analysis.rls, RlsKey, BuildNames[k])
-----------------------------------------------------------------------------
(* --user-table: the user model of the RLS generation *)

n_Account == <<"A","c","c","o","u","n","t">>
n_Note == <<"N","o","t","e">>

\* detectUserTable(models, userTableOption); <<>> is no option, "throws" the
\* two errors
detectUserTable(ms, userTableOption) ==
    LET userTables == {i \in 1..Len(ms) : toLowerCase(ms[i].name) \in {n_user, n_users}}
    IN IF userTableOption # <<>> THEN userTableOption
       ELSE IF Cardinality(userTables) # 1 THEN <<"throws">>
       ELSE ms[CHOOSE i \in userTables : TRUE].name

\* the fields of the acting principal a policy can ask for
ActorKeys == <<n_student_id, n_tenant_id>>

\* a model of principals holding the given keys as scalar fields
PrincipalModel(name, keys) ==
    Model(name,
          <<IdField(n_id)>> \o [k \in 1..Len(keys) |-> ScalarField(keys[k])],
          <<>>, <<>>)

NoteModel ==
    Model(n_Note,
          <<IdField(n_id), ScalarField(n_owner_id), ScalarField(n_student_id),
            ScalarField(n_tenant_id)>>,
          <<>>, <<>>)

KeyLists == {<<>>, <<n_student_id>>, <<n_tenant_id>>, <<n_student_id, n_tenant_id>>}

\* the schemas: the principals are in Account, with or without a model User
\* beside it, or in User alone
UserSchemas ==
    {<<PrincipalModel(n_Account, ks), NoteModel>> : ks \in KeyLists}
    \cup {<<PrincipalModel(n_Account, ks), PrincipalModel(n_User, us), NoteModel>> :
             ks \in KeyLists, us \in KeyLists}
    \cup {<<PrincipalModel(n_User, us), NoteModel>> : us \in KeyLists}

UserAtoms ==
    {FieldIsActor(n_student_id, n_current_student_id),
     FieldIsActor(n_tenant_id, n_current_tenant_id),
     FieldIsActor(n_owner_id, n_current_user_id)}

UserOptions == {<<>>, n_Account, n_User}

\* the runs generateACL does not end with an error of detectUserTable, the
\* option naming a model of the schema
InitUser ==
    /\ pc = {}
    /\ models \in UserSchemas
    /\ relationships = generateRelationships(models).relationships
    /\ modelName = n_Note
    /\ policy \in {[userTable |-> t, atom |-> a] : t \in UserOptions, a \in UserAtoms}
    /\ detectUserTable(models, policy.userTable) # <<"throws">>
    /\ ModelInfo(models, detectUserTable(models, policy.userTable)) # NoModel
    /\ sql = AtomText(policy.atom)
    /\ analysis = EmptyAnalysis
    /\ prismaFilter = NotBuilt
    /\ jsExpr = NoJs
    /\ fnCode = NoJs
    /\ functionAnalysis = NoAnalysis
    /\ ast = NoAst

\* generateACL: createEnhancedConverter({}, {}, models, relationships), then
\* converter.convertToPrismaFilter(sql, 'user', modelName); userTable is not
\* handed to the converter
UserToPrismaFilter ==
    /\ "filter" \notin pc
    /\ pc' = pc \cup {"filter"}
    /\ prismaFilter' = EnhancedToPrismaFilter(models, relationships, sql, n_user, modelName)
    /\ UNCHANGED <<ast, functionAnalysis, models, relationships, modelName, policy, sql,
                   analysis, jsExpr, fnCode>>

\* converter.convertToJavaScript(sql, 'data', 'user', modelName)
UserToJavaScript ==
    /\ "javascript" \notin pc
    /\ pc' = pc \cup {"javascript"}
    /\ jsExpr' = EnhancedToJavaScript(models, relationships, sql, n_data, n_user, modelName)
    /\ UNCHANGED <<ast, functionAnalysis, models, relationships, modelName, policy, sql,
                   analysis, prismaFilter, fnCode>>

NextUser == UserToPrismaFilter \/ UserToJavaScript

SpecUser == InitUser /\ [][NextUser]_vars

\* the path of a field of the acting principal, resolved against the fields of
\* the given user model as convertToUserFieldPath resolves it
ResolvedAgainst(userModel, userField, userVar) ==
    LET userHasField == FieldInfo(userModel, userField)
    IN IF userField = n_id
       THEN PathOp(userVar, <<Step(n_id, TRUE)>>)
       ELSE IF userHasField # NoField /\ ~userHasField.isRelation
       THEN PathOp(userVar, <<Step(userField, TRUE)>>)
       ELSE IF endsWith(userField, n__id)
       THEN PathOp(userVar, <<Step(SubSeq(userField, 1, Len(userField) - 3), FALSE),
                              Step(n_id, TRUE)>>)
       ELSE PathOp(userVar, <<Step(userField, TRUE)>>)

\* the filter and the predicate of the policy with the actor's field resolved
\* against the model of the given name
ActorResolvedAgainst(name) ==
    LET path == ResolvedAgainst(ModelInfo(models, name),
                                functionMappings[policy.atom.provider], n_user)
    IN /\ "filter" \in pc => prismaFilter = FEq(policy.atom.field, path)
       /\ "javascript" \in pc => jsExpr.k = "eq" /\ jsExpr.r = path

\* C25: with --user-table T, the actor's field in the generated filter and
\* predicate is resolved against the fields of model T
C25_UserTableIsUserModel ==
    policy.userTable # <<>> => ActorResolvedAgainst(policy.userTable)

\* without the option, the detected model is the one resolved against
DetectedUserModelIsUsed ==
    policy.userTable = <<>> => ActorResolvedAgainst(detectUserTable(models, <<>>))

\* with or without the option, the model resolved against is the first one
\* named user or users, and no model at all when there is none
FirstUserNamedModelIsUsed ==
    ActorResolvedAgainst(UserModel(models).name)
-----------------------------------------------------------------------------
(* generateFilter: the policies of one operation combined into one filter *)

MaxCombined == 2   \* policies of one operation

\* the expressions of the policies: the owner's rows, the active rows, every
\* row for admins, every row for moderators, every row for admins and the
\* owner's rows for the others, every row
CombinedTexts ==
    {AtomText(FieldIsActor(n_owner_id, n_current_user_id)),
     AtomText(FieldIs(n_status, n_active)),
     AtomText(RoleAny(n_current_user_role, <<n_admin>>)),
     AtomText(RoleIs(n_current_user_role, n_mod)),
     AtomText(RoleAny(n_current_user_role, <<n_admin>>)) \o <<W(n_OR)>>
         \o AtomText(FieldIsActor(n_owner_id, n_current_user_id)),
     <<W(n_true)>>}

\* the rows of pg_policies of one table and one command
CombinedPolicies(lengths) ==
    UNION {{[k \in 1..n |-> [name |-> PolicyNames[k], raises |-> rs[k], using |-> ts[k]]] :
                ts \in [1..n -> CombinedTexts], rs \in [1..n -> BOOLEAN]} : n \in lengths}

InitCombine ==
    /\ pc = {}
    /\ models = SchemaModels
    /\ relationships = generateRelationships(SchemaModels).relationships
    /\ modelName = n_Post
    /\ policy \in CombinedPolicies(0..MaxCombined)
    /\ sql = <<>>
    /\ analysis = EmptyAnalysis
    /\ prismaFilter = NotBuilt
    /\ jsExpr = NoJs
    /\ fnCode = NoJs
    /\ functionAnalysis = NoAnalysis
    /\ ast = NoAst

\* generateFilter(policies, 'using', converter, modelName)
CombineFilter ==
    /\ "filter" \notin pc
    /\ pc' = pc \cup {"filter"}
    /\ fnCode' = generateFilter(models, relationships, policy, modelName)
    /\ UNCHANGED <<ast, functionAnalysis, models, relationships, modelName, policy, sql,
                   analysis, prismaFilter, jsExpr>>

NextCombine == CombineFilter

SpecCombine == InitCombine /\ [][NextCombine]_vars

\* the rows the body of a filter function lets an actor reach
CodeAdmits(code, rec, user) ==
    \/ /\ GetProp(user, n_role).k = "str"
       /\ SeqHas(code.roles, GetProp(user, n_role).v)
    \/ Accepts(FilterFor(code.ret, user), rec, user)

CombineActors == {UserAdmin, UserGuest, UserMod}

\* the filter function of the k-th policy alone
OwnFilter(k) == generateFilter(models, relationships, <<policy[k]>>, modelName)

\* C26: the combined filter of the policies of one operation admits, for
\* every actor, each stored row that the filter of one of the policies alone
\* admits, whatever the order of the policies
C26_AnyPolicyAllows ==
    "filter" \in pc
    => \A k \in 1..Len(policy) : \A user \in CombineActors : \A rec \in StoredRecords :
          CodeAdmits(OwnFilter(k), rec, user) => CodeAdmits(fnCode, rec, user)

\* a policy whose own filter is a test of the role followed by a data filter
ReturnsEarly(k) == OwnFilter(k).ret.k = "if"

\* the same, for lists with no policy that mixes a role and a data filter
AnyPolicyAllowsWithoutMixed ==
    (\A k \in 1..Len(policy) : ~ReturnsEarly(k)) => C26_AnyPolicyAllows
\* the policies whose conversion gave the pass filter {} and no role condition
PassPolicies ==
    {k \in 1..Len(policy) :
        /\ ~policy[k].raises
        /\ LET item == FilterItems(models, relationships, <<policy[k]>>, modelName)[1]
           IN item.filter = FPass /\ item.roleConditions = <<>>}

\* C28: the filter function is `return false;` only when there is no policy
\* or every conversion failed, and it is `return {};` when a policy converts
\* to {} with no role condition
C28_DenyOnlyWithoutPolicy ==
    "filter" \in pc
    => /\ fnCode = FilterCode(<<>>, FFalse)
          => \A k \in 1..Len(policy) : policy[k].raises
       /\ PassPolicies # {} => fnCode = FilterCode(<<>>, FPass)

\* the last statement of a filter function never returns {}
NeverReturnsPass ==
    "filter" \in pc => fnCode.ret # FPass
-----------------------------------------------------------------------------
(* generateModelACL: the policies of a model, each for one command *)

MaxCommandPolicies == 2   \* policies of the model

Commands == {"SELECT", "INSERT", "UPDATE", "DELETE", "ALL"}

\* the expressions: the owner's rows, every row
CommandTexts ==
    {AtomText(FieldIsActor(n_owner_id, n_current_user_id)), <<W(n_true)>>}

\* the rows of pg_policies of one table; using is the expression of the row,
\* qual or, for INSERT, with_check
CommandPolicies(lengths) ==
    UNION {{[k \in 1..n |-> [name |-> PolicyNames[k], raises |-> FALSE,
                             using |-> ts[k], command |-> cs[k]]] :
                ts \in [1..n -> CommandTexts], cs \in [1..n -> Commands]} : n \in lengths}

InitCommand ==
    /\ pc = {}
    /\ models = SchemaModels
    /\ relationships = generateRelationships(SchemaModels).relationships
    /\ modelName = n_Post
    /\ policy \in CommandPolicies(0..MaxCommandPolicies)
    /\ sql = <<>>
    /\ analysis = EmptyAnalysis
    /\ prismaFilter = NotBuilt
    /\ jsExpr = NoJs
    /\ fnCode = NoJs
    /\ functionAnalysis = NoAnalysis
    /\ ast = NoAst

\* generateModelACL(modelName, policies[modelName], converter)
GenerateModelACL ==
    /\ "acl" \notin pc
    /\ pc' = pc \cup {"acl"}
    /\ fnCode' = generateModelACL(models, relationships, modelName, policy)
    /\ UNCHANGED <<ast, functionAnalysis, models, relationships, modelName, policy, sql,
                   analysis, prismaFilter, jsExpr>>

NextCommand == GenerateModelACL

SpecCommand == InitCommand /\ [][NextCommand]_vars

\* `return false;` or `return {};`
DeniesOrPasses(code) ==
    code = FilterCode(<<>>, FFalse) \/ code = FilterCode(<<>>, FPass)

\* result is the access filter exactly when the filter generated for the
\* command denies or passes everything and the access filter does not, and
\* the generated filter otherwise
ReplacedExactlyWhen(result, generated, access) ==
    IF DeniesOrPasses(generated) /\ ~DeniesOrPasses(access)
    THEN result = access ELSE result = generated

\* the filter generated from the policies of a command and of ALL
GeneratedFor(command) ==
    generateFilter(models, relationships, PoliciesFor(policy, command), modelName)

\* C27: the update (delete) filter of a model with policies is the access
\* filter exactly when the filter generated from the UPDATE/ALL (DELETE/ALL)
\* policies is `return false;` or `return {};` and the access filter is
\* neither, and that generated filter otherwise; a model without policies gets
\* canCreate true and {} for the three filters
C27_CopiedExactlyWhenEmpty ==
    "acl" \in pc
    => IF policy = <<>>
       THEN /\ fnCode.canCreate = JsTrue
            /\ fnCode.getAccessFilter = FilterCode(<<>>, FPass)
            /\ fnCode.getUpdateFilter = FilterCode(<<>>, FPass)
            /\ fnCode.getDeleteFilter = FilterCode(<<>>, FPass)
       ELSE /\ fnCode.getAccessFilter = GeneratedFor("SELECT")
            /\ ReplacedExactlyWhen(fnCode.getUpdateFilter, GeneratedFor("UPDATE"),
                                   fnCode.getAccessFilter)
            /\ ReplacedExactlyWhen(fnCode.getDeleteFilter, GeneratedFor("DELETE"),
                                   fnCode.getAccessFilter)

\* a model with a read policy on the owner's rows and no update policy: its
\* update filter is the access filter
C27_Witness ==
    /\ "acl" \in pc
    /\ policy # <<>>
    /\ PoliciesFor(policy, "UPDATE") = <<>>
    /\ fnCode.getAccessFilter.ret.k = "eq"
    /\ fnCode.getUpdateFilter = fnCode.getAccessFilter

\* a model whose update policies give a filter of their own keeps it
UpdateFilterKept ==
    ("acl" \in pc /\ policy # <<>> /\ ~DeniesOrPasses(GeneratedFor("UPDATE")))
    => fnCode.getUpdateFilter = GeneratedFor("UPDATE")
-----------------------------------------------------------------------------
(* extractPostgreSQLPolicies: one client, the rows of pg_policies grouped by
   model *)

MaxRows == 2   \* rows pg_policies returns

n_blog_posts == <<"b","l","o","g","_","p","o","s","t","s">>
n_audit == <<"a","u","d","i","t">>
n_constructor == <<"c","o","n","s","t","r","u","c","t","o","r">>

\* the models of the schema: BlogPost is mapped to the table blog_posts
ExtractModels ==
    <<[name |-> n_User, dbName |-> <<>>],
      [name |-> n_Post, dbName |-> <<>>],
      [name |-> n_BlogPost, dbName |-> n_blog_posts]>>

\* the tables with policies: constructor is a name every plain object inherits
TableNames == {n_user, n_Post, n_blog_posts, n_audit, n_constructor}
InheritedNames == {n_constructor}

PgRows ==
    UNION {{[k \in 1..n |-> [tablename |-> ts[k], policyname |-> PolicyNames[k]]] :
                ts \in [1..n -> TableNames]} : n \in 0..MaxRows}

\* the promise the async function returns
Pending == [state |-> "pending", value |-> <<>>, reason |-> "none"]
Fulfilled(value) == [state |-> "fulfilled", value |-> value, reason |-> "none"]
Rejected(reason) == [state |-> "rejected", value |-> <<>>, reason |-> reason]

\* the client: the calls of end(), the error raised in the try block and the
\* operations of the client that failed
ClientState(ends, raised, failed) == [ends |-> ends, raised |-> raised, failed |-> failed]

\* policy.variant is "acl" for the function given the models (part_002) and
\* "rls" for the one given the model names (part_001)
InitExtract ==
    /\ pc = "connect"
    /\ models = ExtractModels
    /\ policy \in {[variant |-> v, rows |-> rs] : v \in {"acl", "rls"}, rs \in PgRows}
    /\ relationships = <<>>
    /\ fnCode = <<>>
    /\ ast = <<>>
    /\ jsExpr = 1
    /\ analysis = ClientState(0, "none", {})
    /\ functionAnalysis = Pending
    /\ modelName = <<>>
    /\ sql = <<>>
    /\ prismaFilter = NotBuilt

\* an error raised in the try block: control goes to the catch block
Raise(error, operation) ==
    /\ pc' = "catch"
    /\ analysis' = [analysis EXCEPT !.raised = error,
                                    !.failed = @ \cup operation]

\* await client.connect()
Connect ==
    /\ pc = "connect"
    /\ \/ /\ pc' = "group"
          /\ UNCHANGED analysis
       \/ Raise("connect failed", {"connect"})
    /\ UNCHANGED <<ast, functionAnalysis, models, relationships, modelName, policy, sql,
                   prismaFilter, jsExpr, fnCode>>

\* modelData.dbName || modelName.toLowerCase()
TableOf(m) == IF m.dbName # <<>> THEN m.dbName ELSE toLowerCase(m.name)

\* the loop over the models: policies[modelName] = [] for every model, and
\* with the models tableToModelMap[dbName] = modelName
Group ==
    /\ pc = "group"
    /\ pc' = "query"
    /\ fnCode' = [k \in 1..Len(models) |-> [model |-> models[k].name, entries |-> <<>>]]
    /\ relationships' = IF policy.variant = "acl"
                        THEN [k \in 1..Len(models) |->
                                 [table |-> TableOf(models[k]), model |-> models[k].name]]
                        ELSE <<>>
    /\ UNCHANGED <<ast, functionAnalysis, models, modelName, policy, sql, analysis,
                   prismaFilter, jsExpr>>

\* await client.query(...)
Query ==
    /\ pc = "query"
    /\ \/ /\ pc' = "rows"
          /\ ast' = policy.rows
          /\ UNCHANGED analysis
       \/ /\ Raise("query failed", {"query"})
          /\ UNCHANGED ast
    /\ UNCHANGED <<functionAnalysis, models, relationships, modelName, policy, sql,
                   prismaFilter, jsExpr, fnCode>>

\* obj[key] of a plain object whose own keys are given: the own value, a
\* value inherited from Object.prototype, or undefined
OwnIndex(keys, key) ==
    IF \E k \in 1..Len(keys) : keys[k] = key
    THEN CHOOSE k \in 1..Len(keys) :
            keys[k] = key /\ \A j \in k + 1..Len(keys) : keys[j] # key
    ELSE 0
PlainObjectGet(keys, key) ==
    IF OwnIndex(keys, key) # 0 THEN "own"
    ELSE IF key \in InheritedNames THEN "inherited"
    ELSE "undefined"

\* policies[modelName].push(...)
Push(policies, k, row) ==
    [policies EXCEPT ![k].entries = Append(@, row.policyname)]

\* one turn of the loop over result.rows
GroupRow ==
    /\ pc = "rows"
    /\ jsExpr <= Len(ast)
    /\ LET row == ast[jsExpr]
           tables == [k \in 1..Len(relationships) |-> relationships[k].table]
           names == [k \in 1..Len(fnCode) |-> fnCode[k].model]
           mapped == OwnIndex(tables, row.tablename)
       IN IF policy.variant = "acl"
          \* modelName && policies[modelName] !== undefined: an inherited
          \* value is truthy and is no key of policies
          THEN /\ fnCode' = IF PlainObjectGet(tables, row.tablename) = "own"
                            THEN Push(fnCode,
                                      OwnIndex(names, relationships[mapped].model), row)
                            ELSE fnCode
               /\ pc' = pc
               /\ jsExpr' = jsExpr + 1
               /\ UNCHANGED analysis
          \* policies[tableName] !== undefined: an inherited value has no push
          ELSE IF PlainObjectGet(names, row.tablename) = "inherited"
          THEN /\ Raise("TypeError", {})
               /\ UNCHANGED <<fnCode, jsExpr>>
          ELSE /\ fnCode' = IF PlainObjectGet(names, row.tablename) = "own"
                            THEN Push(fnCode, OwnIndex(names, row.tablename), row)
                            ELSE fnCode
               /\ pc' = pc
               /\ jsExpr' = jsExpr + 1
               /\ UNCHANGED analysis
    /\ UNCHANGED <<ast, functionAnalysis, models, relationships, modelName, policy, sql,
                   prismaFilter>>

\* await client.end(); return policies;
End ==
    /\ pc = "rows"
    /\ jsExpr > Len(ast)
    /\ \/ /\ pc' = "done"
          /\ analysis' = [analysis EXCEPT !.ends = @ + 1]
          /\ functionAnalysis' = Fulfilled(fnCode)
       \/ /\ pc' = "catch"
          /\ analysis' = [analysis EXCEPT !.ends = @ + 1, !.raised = "end failed",
                                          !.failed = @ \cup {"end"}]
          /\ UNCHANGED functionAnalysis
    /\ UNCHANGED <<ast, models, relationships, modelName, policy, sql, prismaFilter,
                   jsExpr, fnCode>>

\* the error the promise is rejected with when the cleanup failed as well
CleanupReason(original, cleanupFailed) ==
    IF cleanupFailed THEN "cleanup failed" ELSE original

\* catch (error) { try { await client.end(); } catch (e) {} throw error; }
RejectReason(original, cleanupFailed) == original

Catch ==
    /\ pc = "catch"
    /\ pc' = "done"
    /\ \E cleanupFailed \in BOOLEAN :
          /\ analysis' = [analysis EXCEPT !.ends = @ + 1]
          /\ functionAnalysis' = Rejected(RejectReason(analysis.raised, cleanupFailed))
    /\ UNCHANGED <<ast, models, relationships, modelName, policy, sql, prismaFilter,
                   jsExpr, fnCode>>

NextExtract == Connect \/ Group \/ Query \/ GroupRow \/ End \/ Catch

SpecExtract == InitExtract /\ [][NextExtract]_vars

\* the model a table belongs to: index into models, 0 for none
ModelOfTable(table) ==
    IF policy.variant = "acl"
    THEN OwnIndex([k \in 1..Len(models) |-> TableOf(models[k])], table)
    ELSE OwnIndex([k \in 1..Len(models) |-> models[k].name], table)

\* the policy names of the rows of the tables of the k-th model, in the order
\* of the rows
RowsOfModel(k) ==
    LET mine == SelectSeq(policy.rows, LAMBDA row : ModelOfTable(row.tablename) = k)
    IN [i \in 1..Len(mine) |-> mine[i].policyname]

\* the returned promise has settled
Settled == functionAnalysis.state # "pending"

\* client.end() has been called before the promise settles
ReleasedOnEveryPath == Settled => analysis.ends >= 1

\* a rejection carries the error raised in the try block
OriginalErrorRethrown ==
    functionAnalysis.state = "rejected"
    => /\ analysis.raised # "none"
       /\ functionAnalysis.reason = analysis.raised

\* a fulfilled promise holds one entry for every model, with the rows of its
\* table and no other
EveryModelHasItsRows ==
    functionAnalysis.state = "fulfilled"
    => /\ Len(functionAnalysis.value) = Len(models)
       /\ \A k \in 1..Len(models) :
             /\ functionAnalysis.value[k].model = models[k].name
             /\ functionAnalysis.value[k].entries = RowsOfModel(k)

\* C29: the client is released on every path, a failure rethrows the original
\* error, a success has an entry for every model, and rows of tables that
\* map to no model are ignored: when no operation of the client fails the
\* promise is fulfilled
C29_ClientReleasedAndRowsGrouped ==
    /\ ReleasedOnEveryPath
    /\ OriginalErrorRethrown
    /\ EveryModelHasItsRows
    /\ (Settled /\ analysis.failed = {}) => functionAnalysis.state = "fulfilled"

\* the same for the function that is given the models
GroupedByTableMap ==
    policy.variant = "acl" => C29_ClientReleasedAndRowsGrouped

\* the same without a table whose name a plain object inherits
GroupedWithoutInheritedName ==
    (\A i \in 1..Len(policy.rows) : policy.rows[i].tablename \notin InheritedNames)
    => C29_ClientReleasedAndRowsGrouped
-----------------------------------------------------------------------------
(* parseDatasource: the provider and the url of the datasource block *)

u_postgresql == <<"p","o","s","t","g","r","e","s","q","l">>
u_postgres == <<"p","o","s","t","g","r","e","s">>
u_mysql == <<"m","y","s","q","l">>
u_sqlite == <<"s","q","l","i","t","e">>
u_scheme == <<":","/","/">>
u_host == <<"h","/","d","b">>
u_file == <<"f","i","l","e",":","d","e","v",".","d","b">>

\* provider = "..." of the block; <<>> when the block names none
Providers == {u_postgresql, u_postgres, u_mysql, u_sqlite, <<>>}

\* connection URLs
Urls ==
    {u_postgresql \o u_scheme \o u_host,
     u_postgres \o u_scheme \o u_host,
     u_mysql \o u_scheme \o u_host,
     u_postgresql \o <<":">> \o u_host,
     u_file}

\* the text after `url =`: a quoted URL, or env("DATABASE_URL") with the
\* value the environment holds for it, <<>> when the variable is not defined
UrlTexts ==
    {[form |-> "literal", text |-> <<q>> \o u \o <<q>>, env |-> <<>>] :
         u \in Urls, q \in {"\"", "'"}}
    \cup {[form |-> "env", text |-> <<>>, env |-> u] : u \in Urls \cup {<<>>}}

\* a schema with a datasource block that has a url
InitDatasource ==
    /\ pc = "url"
    /\ policy \in {[provider |-> p, url |-> u] : p \in Providers, u \in UrlTexts}
    /\ sql = <<>>
    /\ analysis = [provider |-> <<>>, url |-> <<>>, isPostgreSQL |-> FALSE,
                   isMySQL |-> FALSE]
    /\ models = <<>>
    /\ relationships = <<>>
    /\ modelName = <<>>
    /\ prismaFilter = NotBuilt
    /\ jsExpr = NoJs
    /\ fnCode = NoJs
    /\ functionAnalysis = NoAnalysis
    /\ ast = NoAst

\* url.replace(/^["']|["']$/g, '')
StripQuotes(s) ==
    LET isQuote(c) == c \in {"\"", "'"}
        from == IF s # <<>> /\ isQuote(s[1]) THEN 2 ELSE 1
        to == IF Len(s) >= from /\ isQuote(s[Len(s)]) THEN Len(s) - 1 ELSE Len(s)
    IN SubSeq(s, from, to)

\* lines 39-53: the url of process.env for env(...), an error when it is not
\* defined, and the text without its quotes otherwise
ResolveUrl ==
    /\ pc = "url"
    /\ IF policy.url.form = "env"
       THEN /\ sql' = policy.url.env
            /\ pc' = IF policy.url.env = <<>> THEN "throws" ELSE "detect"
       ELSE /\ sql' = StripQuotes(policy.url.text)
            /\ pc' = "detect"
    /\ UNCHANGED <<ast, functionAnalysis, models, relationships, modelName, policy,
                   analysis, prismaFilter, jsExpr, fnCode>>

\* the provider is mysql or the url starts with mysql://
MySQLDetected(provider, url) ==
    provider = u_mysql \/ (url # <<>> /\ startsWith(url, u_mysql \o u_scheme))

\* lines 57-62
PostgreSQLDetected(provider, url) ==
    IF provider \in {u_postgresql, u_postgres} THEN TRUE
    ELSE /\ url # <<>>
         /\ \/ startsWith(url, u_postgresql \o u_scheme)
            \/ startsWith(url, u_postgres \o u_scheme)

\* lines 55-77
DetectDatabase ==
    /\ pc = "detect"
    /\ pc' = "done"
    /\ analysis' = [provider |-> policy.provider,
                    url |-> sql,
                    isPostgreSQL |-> IF MySQLDetected(policy.provider, sql) THEN FALSE
                                     ELSE PostgreSQLDetected(policy.provider, sql),
                    isMySQL |-> MySQLDetected(policy.provider, sql)]
    /\ UNCHANGED <<ast, functionAnalysis, models, relationships, modelName, policy, sql,
                   prismaFilter, jsExpr, fnCode>>

NextDatasource == ResolveUrl \/ DetectDatabase

SpecDatasource == InitDatasource /\ [][NextDatasource]_vars

\* the resolved url starts with postgresql:// or postgres://
IsPostgresUrl(url) ==
    \/ Len(url) >= 13 /\ SubSeq(url, 1, 13) = u_postgresql \o u_scheme
    \/ Len(url) >= 11 /\ SubSeq(url, 1, 11) = u_postgres \o u_scheme

\* C30: a result whose url starts with postgresql:// or postgres:// has
\* isPostgreSQL true, whatever the provider, and no result has isPostgreSQL
\* and isMySQL both true
C30_PostgresUrlWins ==
    pc = "done"
    => /\ IsPostgresUrl(analysis.url) => analysis.isPostgreSQL
       /\ ~(analysis.isPostgreSQL /\ analysis.isMySQL)

\* no result has both flags
NeverBothDatabases ==
    pc = "done" => ~(analysis.isPostgreSQL /\ analysis.isMySQL)

\* the url decides unless the provider is mysql
PostgresUrlWinsUnlessMySQL ==
    (pc = "done" /\ analysis.provider # u_mysql /\ IsPostgresUrl(analysis.url))
    => analysis.isPostgreSQL

====
